---- MODULE Spec2Model ----
(***************************************************************************)
(* Model of the flight-chart-hub Gantt timeline (GanttView): the selected  *)
(* window, the chunk granularity, the data fetched for a window, and the   *)
(* layout functions getFlightPosition / generateHourSeparators.            *)
(*                                                                         *)
(* Instants are integers: milliseconds since 00:00:00.000 UTC of model day *)
(* 0 (what Date.getTime() returns, shifted).  JavaScript numbers that are  *)
(* not integers (hours, percentages) are exact rationals [num, den] in     *)
(* lowest terms with den > 0.  The '%' strings returned by                 *)
(* getFlightPosition are modelled by the number they are rendered from.    *)
(* Calendar arithmetic of date-fns (addDays, differenceInDays, format)     *)
(* works on the local fields of the browser's time zone, which is part of  *)
(* the state: a zone is its offset from UTC before and after one           *)
(* daylight-saving transition.                                             *)
(***************************************************************************)
EXTENDS Integers, Sequences, FiniteSets, Bags, TLC

\* ---------------------------------------------------------------- bounds
\* Calendar days offered by the two date pickers: FirstDay .. FirstDay+PickSpan
PickSpan == 1
\* Largest number of fetchData calls awaiting their response
MaxPending == 1
\* Largest number of requests the client sends to change the store
MaxRequests == 2
\* Largest number of those requests awaiting their response at a time
MaxInFlight == 1

\* ------------------------------------------------------- program constants
HOUR == 3600000
DAY == 24 * HOUR
\* 23, 59, 59, 999
END_OF_DAY == 23 * HOUR + 59 * 60000 + 59 * 1000 + 999
DefaultRangeDays == 2

\* first pickable day: an auto-corrected start (utcDate - 2 days) stays >= day 0
FirstDay == DefaultRangeDays
PickDays == FirstDay .. (FirstDay + PickSpan)
TimeViews == {6, 12, 24}

\* ------------------------------------------------------------- rationals
RECURSIVE GCD(_, _)
GCD(a, b) == IF b = 0 THEN a ELSE GCD(b, a % b)

Abs(x) == IF x < 0 THEN -x ELSE x

\* n/d in lowest terms, d > 0
Rat(n, d) ==
  LET g == GCD(Abs(n), Abs(d))
      s == IF d < 0 THEN -1 ELSE 1
  IN  [num |-> (s * n) \div g, den |-> (s * d) \div g]

RatInt(n) == [num |-> n, den |-> 1]

RatMul(x, y) ==
  LET g1 == GCD(Abs(x.num), y.den)
      g2 == GCD(Abs(y.num), x.den)
  IN  [num |-> (x.num \div g1) * (y.num \div g2),
       den |-> (x.den \div g2) * (y.den \div g1)]

RatAdd(x, y) ==
  LET g == GCD(x.den, y.den)
      l == (x.den \div g) * y.den
  IN  Rat(x.num * (l \div x.den) + y.num * (l \div y.den), l)

\* x < y, compared over the common denominator
RatLess(x, y) ==
  LET g == GCD(x.den, y.den)
  IN  x.num * (y.den \div g) < y.num * (x.den \div g)

RatLeq(x, y) == ~RatLess(y, x)

RatMax(x, y) == IF RatLess(x, y) THEN y ELSE x

\* ------------------------------------------------- the external data store
\* aircraft rows; only rows with status 'active' are listed by the view
SeedAircraft ==
  { [id |-> 1, registration |-> "N123AB", status |-> "active"],
    [id |-> 2, registration |-> "N456CD", status |-> "active"],
    [id |-> 3, registration |-> "N321GH", status |-> "maintenance"] }

T0 == FirstDay * DAY

\* flight_routes rows (instants in ms); every row satisfies valid_times
SeedRoutes ==
  { [id |-> 1, aircraft_id |-> 1,
     departure_time |-> T0 + 5 * HOUR, arrival_time |-> T0 + 10 * HOUR],
    [id |-> 2, aircraft_id |-> 1,
     departure_time |-> T0 + 7 * HOUR, arrival_time |-> T0 + 7 * HOUR + 60000],
    [id |-> 3, aircraft_id |-> 2,
     departure_time |-> T0 + DAY + END_OF_DAY, arrival_time |-> T0 + 2 * DAY + 2 * HOUR],
    [id |-> 4, aircraft_id |-> 2,
     departure_time |-> T0 + DAY, arrival_time |-> T0 + DAY + 30 * HOUR],
    [id |-> 5, aircraft_id |-> 1,
     departure_time |-> T0 - HOUR, arrival_time |-> T0 + 3 * HOUR],
    [id |-> 6, aircraft_id |-> 3,
     departure_time |-> T0 + 2 * DAY + 12 * HOUR, arrival_time |-> T0 + 2 * DAY + 13 * HOUR] }

\* --------------------------------------------------------------- state
VARIABLES
  aircraft_table,   \* store: table public.aircraft
  flight_routes,    \* store: table public.flight_routes
  aircraft,         \* GanttView state: aircraft rows of the last successful fetch
  routes,           \* GanttView state: route rows of the last successful fetch
  loading,          \* GanttView state: no fetch has finished yet
  timeView,         \* GanttView state: hours per chunk
  startDate,        \* GanttView state: Date (ms)
  endDate,          \* GanttView state: Date (ms)
  pending,          \* fetchData calls awaiting their response (a bag: two
                    \* calls for one window are two calls), each with the
                    \* window bounds its query was built from
  user_roles,       \* store: table public.user_roles
  id_seq,           \* store: the next row id (stands for gen_random_uuid())
  sent,             \* number of change requests sent so far
  uid,              \* the signed-in user of the client (auth.uid() of its requests)
  reqs,             \* the requests of the client awaiting their response
  acDialog,         \* AircraftList state: dialogOpen, selectedAircraft; AircraftDialog loading
  frDialog,         \* GanttView state: dialogOpen, selectedRoute; FlightRouteDialog loading
  deleteDialog,     \* GanttView state: deleteDialogOpen, routeToDelete
  toast,            \* the last toast shown
  profiles,         \* store: table public.profiles
  auth_users,       \* store: auth.users (the sign-in accounts)
  authPage,         \* Auth page: isLoading; the route shown; the error of the last
                    \* response to a direct request
  acList,           \* AircraftList state: aircraft, loading; fetchAircraft calls in flight
  tz                \* the browser's time zone: local time minus UTC (ms) before
                    \* and from the instant of its daylight-saving transition on

\* what the Gantt window actions leave alone
clientVars == <<user_roles, id_seq, sent, uid, reqs, acDialog, frDialog, deleteDialog, toast,
                profiles, auth_users, authPage, acList, tz>>

\* the accounts and the Auth page, which the pages behind the login leave
\* alone, and the browser's zone, which nothing changes
authVars == <<profiles, auth_users, authPage, tz>>

vars == <<aircraft_table, flight_routes, aircraft, routes, loading, timeView,
          startDate, endDate, pending, user_roles, id_seq, sent, uid, reqs,
          acDialog, frDialog, deleteDialog, toast, profiles, auth_users,
          authPage, acList, tz>>

\* ------------------------------------------------------- date arithmetic
\* Date.UTC(d.getUTCFullYear(), d.getUTCMonth(), d.getUTCDate(), 0, 0, 0, 0)
UTCMidnight(d) == (d \div DAY) * DAY

\* the browser zones examined: UTC, and a zone five hours west of UTC whose
\* clocks go forward (02:00 -> 03:00 local) or back (02:00 -> 01:00 local)
\* by an hour in the night after the first pickable day
UTCZone == [before |-> 0, at |-> 0, after |-> 0]

Zones ==
  { UTCZone,
    [before |-> -5 * HOUR, at |-> T0 + DAY + 7 * HOUR, after |-> -4 * HOUR],
    [before |-> -4 * HOUR, at |-> T0 + DAY + 6 * HOUR, after |-> -5 * HOUR] }

\* the local fields of a Date (getFullYear ... getMilliseconds) as local
\* milliseconds: the instant plus the zone's offset at that instant
LocalFields(date) == date + (IF date < tz.at THEN tz.before ELSE tz.after)

\* the Date of local fields (what setDate / new Date(y, m, d, ...) build): a
\* local time that occurs twice or not at all is read with the offset in
\* force before the transition
FromLocalFields(fields) ==
  IF fields - tz.before < tz.at \/ fields - tz.after < tz.at
    THEN fields - tz.before
    ELSE fields - tz.after

\* date-fns addDays: the date itself for amount 0, otherwise
\* setDate(getDate() + amount) on the local fields
addDays(date, amount) ==
  IF amount = 0
    THEN date
    ELSE FromLocalFields(LocalFields(date) + amount * DAY)

\* date-fns compareLocalAsc: the sign of the difference of the local fields
\* (year, month, date, hours, minutes, seconds, milliseconds in turn)
compareLocalAsc(dateLeft, dateRight) ==
  LET diff == LocalFields(dateLeft) - LocalFields(dateRight)
  IN  IF diff < 0 THEN -1 ELSE IF diff > 0 THEN 1 ELSE 0

\* date-fns startOfDay: setHours(0, 0, 0, 0)
startOfDay(date) == FromLocalFields((LocalFields(date) \div DAY) * DAY)

\* date-fns differenceInCalendarDays: the local midnights of the two dates,
\* each less its zone offset, apart in days (Math.round of a quotient that
\* is whole)
differenceInCalendarDays(dateLeft, dateRight) ==
  (LocalFields(startOfDay(dateLeft)) - LocalFields(startOfDay(dateRight))) \div DAY

\* date-fns differenceInDays: the calendar days apart, less one when the
\* left date, set back by that many days with setDate, has not reached the
\* local time of the right date
differenceInDays(dateLeft, dateRight) ==
  LET sign == compareLocalAsc(dateLeft, dateRight)
      difference == Abs(differenceInCalendarDays(dateLeft, dateRight))
      shifted == FromLocalFields(LocalFields(dateLeft) - sign * difference * DAY)
      isLastDayNotFull == IF compareLocalAsc(shifted, dateRight) = -sign THEN 1 ELSE 0
  IN  sign * (difference - isLastDayNotFull)

\* slip: the quotient plus one for the ceiling
CeilDiv_MPlusOne(a, b) == (a \div b) + 1

\* Math.ceil(a / b) for an integer a and b > 0
CeilDiv(a, b) == -((-a) \div b)

\* --------------------------------------------- timeline range (per render)
NumDaysOf(sd, ed) == differenceInDays(ed, sd) + 1
DayStartOf(sd) == UTCMidnight(sd)
\* 23:59:59.999 UTC of the date's UTC calendar day
DayEndOf(ed) == UTCMidnight(ed) + END_OF_DAY

numDays == NumDaysOf(startDate, endDate)
dayStart == DayStartOf(startDate)
dayEnd == DayEndOf(endDate)
totalHoursInRange == numDays * 24
numChunks == CeilDiv(totalHoursInRange, timeView)

\* ---------------------------------------------------- getFlightPosition
\* (ms / (1000 * 60 * 60)) as an exact number of hours
Hours(ms) == Rat(ms, HOUR)

NotVisible ==
  [left |-> RatInt(0), width |-> RatInt(0), visible |-> FALSE, chunkIndex |-> -1]

\* Faulty variants (suffix _M...) each differ from the definition that
\* follows them by one plausible slip; the properties below are expected to
\* tell every one of them from the code.

\* slip: '>' for '>=' in the upper range check
OutsideRange_MGt(hoursFromStart, total) ==
  RatLess(hoursFromStart, RatInt(0)) \/ RatLess(RatInt(total), hoursFromStart)

\* slip: the lower range check is left out
OutsideRange_MNoLower(hoursFromStart, total) ==
  RatLeq(RatInt(total), hoursFromStart)

\* totalHoursFromStart < 0 || totalHoursFromStart >= totalHoursInRange
OutsideRange(hoursFromStart, total) ==
  RatLess(hoursFromStart, RatInt(0)) \/ RatLeq(RatInt(total), hoursFromStart)

\* Math.floor(totalHoursFromStart / timeView)
DepartureChunk(msFromStart, tv) == msFromStart \div (tv * HOUR)

\* slip: the position within the chunk is taken as a share of a 24-hour day
PositionWithinChunkPercent_MPerDay(hoursWithinChunk, tv, nc) ==
  RatMul(RatMul(hoursWithinChunk, Rat(1, 24)), Rat(100, nc))

\* slip: the position within the chunk is not scaled to the container
PositionWithinChunkPercent_MUnscaled(hoursWithinChunk, tv, nc) ==
  RatMul(RatMul(hoursWithinChunk, Rat(1, tv)), RatInt(100))

\* (hoursWithinChunk / timeView) * (100 / numChunks)
PositionWithinChunkPercent(hoursWithinChunk, tv, nc) ==
  RatMul(RatMul(hoursWithinChunk, Rat(1, tv)), Rat(100, nc))

\* slip: a bar is never wider than one chunk
WidthPercent_MOneChunk(duration, tv, nc) ==
  IF RatLess(RatInt(tv), duration)
    THEN Rat(100, nc)
    ELSE RatMul(RatMul(duration, Rat(1, tv)), Rat(100, nc))

\* (duration / timeView) * (100 / numChunks)
WidthPercent(duration, tv, nc) ==
  RatMul(RatMul(duration, Rat(1, tv)), Rat(100, nc))

\* slip: no minimum width
BarWidth_MNoMin(widthPercent) == widthPercent

\* Math.max(0.5, widthPercent)
BarWidth(widthPercent) == RatMax(Rat(1, 2), widthPercent)

\* getFlightPosition with the values it reads from the enclosing render
\* (dayStart, timeView, numChunks, totalHoursInRange) made explicit
FlightPosition(departure, arrival, ds, tv, nc, total) ==
  LET msFromStart == departure - ds
      msToArrival == arrival - ds
      totalHoursFromStart == Hours(msFromStart)
      totalHoursToArrival == Hours(msToArrival)
  IN  IF OutsideRange(totalHoursFromStart, total)
        THEN NotVisible
        ELSE
          LET departureChunk == DepartureChunk(msFromStart, tv)
              \* totalHoursFromStart % timeView
              hoursWithinChunk == Hours(msFromStart % (tv * HOUR))
              duration == RatAdd(totalHoursToArrival,
                                 RatMul(RatInt(-1), totalHoursFromStart))
              chunkLeftPercent == RatMul(Rat(departureChunk, nc), RatInt(100))
              positionWithinChunkPercent ==
                PositionWithinChunkPercent(hoursWithinChunk, tv, nc)
              widthPercent == WidthPercent(duration, tv, nc)
          IN  [left |-> RatAdd(chunkLeftPercent, positionWithinChunkPercent),
               width |-> BarWidth(widthPercent),
               visible |-> TRUE,
               chunkIndex |-> departureChunk]

getFlightPosition(departureTime, arrivalTime) ==
  FlightPosition(departureTime, arrivalTime,
                 dayStart, timeView, numChunks, totalHoursInRange)

\* ------------------------------------------------ generateHourSeparators
SeparatorPosition(chunkIndex, hour, tv, nc) ==
  LET chunkLeftPercent == RatMul(Rat(chunkIndex, nc), RatInt(100))
      hourPositionPercent == RatMul(Rat(hour, tv), Rat(100, nc))
  IN  RatAdd(chunkLeftPercent, hourPositionPercent)

\* slip: hour 0 of the later chunks is not skipped
ChunkSeparators_MNoSkip(chunkIndex, tv, nc) ==
  [k \in 1 .. (tv + 1) |->
     [position |-> SeparatorPosition(chunkIndex, k - 1, tv, nc),
      chunkIndex |-> chunkIndex,
      hour |-> k - 1]]

\* the inner loop for one chunk: hour = 0 .. timeView, where the entry for
\* hour 0 of a chunk after the first is skipped (continue)
ChunkSeparators(chunkIndex, tv, nc) ==
  LET Skipped(e) == e.hour = 0 /\ e.chunkIndex > 0
      all == [k \in 1 .. (tv + 1) |->
                [position |-> SeparatorPosition(chunkIndex, k - 1, tv, nc),
                 chunkIndex |-> chunkIndex,
                 hour |-> k - 1]]
  IN  SelectSeq(all, LAMBDA e : ~Skipped(e))

\* the outer loop, from chunkIndex on
RECURSIVE HourSeparatorsFrom(_, _, _)
HourSeparatorsFrom(chunkIndex, tv, nc) ==
  IF chunkIndex >= nc THEN <<>>
  ELSE ChunkSeparators(chunkIndex, tv, nc) \o HourSeparatorsFrom(chunkIndex + 1, tv, nc)

generateHourSeparators == HourSeparatorsFrom(0, timeView, numChunks)

\* --------------------------------------------------- generateTimeLabels
\* the characters '0' .. '9'; a string is a sequence of characters
DigitChars == <<"0", "1", "2", "3", "4", "5", "6", "7", "8", "9">>

\* String(n) for an integer n >= 0: its decimal digits
RECURSIVE String(_)
String(n) ==
  IF n < 10 THEN <<DigitChars[n + 1]>>
  ELSE Append(String(n \div 10), DigitChars[(n % 10) + 1])

\* String.prototype.padStart with a one-character fill string
RECURSIVE padStart(_, _, _)
padStart(str, targetLength, padString) ==
  IF Len(str) >= targetLength THEN str
  ELSE padStart(<<padString>> \o str, targetLength, padString)

\* slip: 6-hour chunks labelled every 2 hours, like 12-hour chunks
TimeLabelInterval_MSixTwo(tv) == IF tv = 24 THEN 1 ELSE 2

\* hours between two labels of a chunk
TimeLabelInterval(tv) ==
  IF tv = 24 THEN 1 ELSE IF tv = 12 THEN 2 ELSE 1

\* the label pushed for one (chunkIndex, hour) of the inner loop
TimeLabel(chunkIndex, hour, tv, interval) ==
  LET absoluteHour == chunkIndex * tv + hour
      hourInDayForLabel == absoluteHour % 24
  IN  [hour |-> hourInDayForLabel,
       chunkIndex |-> chunkIndex,
       width |-> interval,
       label |-> padStart(String(hourInDayForLabel), 2, "0") \o <<":", "0", "0">>]

\* the inner loop: hour = 0, interval, 2 * interval, ... while hour < tv
ChunkTimeLabels(chunkIndex, tv, interval) ==
  [k \in 1 .. CeilDiv(tv, interval) |->
     TimeLabel(chunkIndex, (k - 1) * interval, tv, interval)]

\* the outer loop from chunkIndex on
RECURSIVE TimeLabelsFrom(_, _, _)
TimeLabelsFrom(chunkIndex, tv, nc) ==
  IF chunkIndex >= nc THEN <<>>
  ELSE ChunkTimeLabels(chunkIndex, tv, TimeLabelInterval(tv))
         \o TimeLabelsFrom(chunkIndex + 1, tv, nc)

generateTimeLabels == TimeLabelsFrom(0, timeView, numChunks)

\* --------------------------------------------------- generateDateLabels
\* date-fns format(date, "MMM dd"): the month and day of the local calendar
\* date, here the number of that calendar day
format(date) == LocalFields(date) \div DAY

\* the loop over the chunks from chunkIndex on
RECURSIVE DateLabelsFrom(_, _, _, _)
DateLabelsFrom(chunkIndex, sd, tv, nc) ==
  IF chunkIndex >= nc THEN <<>>
  ELSE LET chunkStartHour == chunkIndex * tv
           chunkDay == chunkStartHour \div 24
           dateForChunk == addDays(sd, chunkDay)
       IN  <<[chunkIndex |-> chunkIndex,
              date |-> dateForChunk,
              label |-> format(dateForChunk)]>>
             \o DateLabelsFrom(chunkIndex + 1, sd, tv, nc)

generateDateLabels == DateLabelsFrom(0, startDate, timeView, numChunks)

\* ------------------------------------------------------------- fetchData
\* the rows the routes query returns: departure_time between the bounds
RoutesQuery(table, gte, lte) ==
  { r \in table : r.departure_time >= gte /\ r.departure_time <= lte }

\* the rows the aircraft query returns
AircraftQuery(table) == { a \in table : a.status = "active" }

\* a fetchData call: its query is built from the dayStart / dayEnd of the
\* render that issued it
FetchFor(sd, ed) == [gte |-> DayStartOf(sd), lte |-> DayEndOf(ed), by |-> "useEffect"]

\* the fetchData of the current render; a handler that calls it after an
\* await (onSuccess of the flight dialog, a confirmed delete) calls the one
\* of the render the handler was started in
fetchData(by) == [gte |-> dayStart, lte |-> dayEnd, by |-> by]

\* ------------------------------------------- the store: roles and policies
\* auth.uid() of a request without a session
NoUser == "anon"
Users == {"admin1", "ctrl1", "plan1"}

\* every user got 'planner' from handle_new_user at sign-up; an admin added
\* the other roles
SeedUserRoles ==
  { [user_id |-> "plan1", role |-> "planner"],
    [user_id |-> "ctrl1", role |-> "planner"],
    [user_id |-> "ctrl1", role |-> "controller"],
    [user_id |-> "admin1", role |-> "planner"],
    [user_id |-> "admin1", role |-> "admin"] }

\* public.has_role(_user_id, _role)
has_role(_user_id, _role) ==
  \E ur \in user_roles : ur.user_id = _user_id /\ ur.role = _role

\* slip: planners may insert aircraft too
AircraftInsertPolicy_MPlanner(caller) ==
  has_role(caller, "admin") \/ has_role(caller, "controller") \/ has_role(caller, "planner")

\* policy "Admins and controllers can insert aircraft" (WITH CHECK)
AircraftInsertPolicy(caller) ==
  has_role(caller, "admin") \/ has_role(caller, "controller")

\* policy "Admins and controllers can update aircraft" (USING)
AircraftUpdatePolicy(caller) ==
  has_role(caller, "admin") \/ has_role(caller, "controller")

\* slip: controllers may delete aircraft too
AircraftDeletePolicy_MController(caller) ==
  has_role(caller, "admin") \/ has_role(caller, "controller")

\* policy "Admins can delete aircraft" (USING)
AircraftDeletePolicy(caller) == has_role(caller, "admin")

\* policy "Planners can insert routes" (WITH CHECK auth.uid() IS NOT NULL)
RoutesInsertPolicy(caller) == caller # NoUser

\* policy "Planners can update routes" (USING auth.uid() IS NOT NULL)
RoutesUpdatePolicy(caller) == caller # NoUser

\* policy "Admins and controllers can delete routes" (USING)
RoutesDeletePolicy(caller) ==
  has_role(caller, "admin") \/ has_role(caller, "controller")

\* ---------------------------------------------- the store: constraints
\* aircraft.registration TEXT NOT NULL UNIQUE
registration_unique(table) ==
  \A a \in table : \A b \in table : a.registration = b.registration => a.id = b.id

\* CONSTRAINT valid_times CHECK (arrival_time > departure_time)
valid_times(row) == row.arrival_time > row.departure_time

\* aircraft_id UUID REFERENCES public.aircraft(id)
aircraft_id_fkey(row, at) == \E a \in at : a.id = row.aircraft_id

\* ------------------------------------------- the store: row operations
\* Each takes the caller (auth.uid()) and the tables and yields the error
\* of the response ("none" when there is none) and the tables afterwards.
\* A row the policy's USING clause hides from the caller is not touched by
\* UPDATE or DELETE, and the response carries no error; an INSERT that
\* fails the WITH CHECK clause is answered with an error.
NoError == "none"

\* insert into aircraft
InsertAircraft(caller, id, data, at) ==
  LET row == [id |-> id, registration |-> data.registration, status |-> data.status]
  IN  IF ~AircraftInsertPolicy(caller) THEN [error |-> "rls", aircraft |-> at]
      ELSE IF ~registration_unique(at \cup {row}) THEN [error |-> "unique", aircraft |-> at]
      ELSE [error |-> NoError, aircraft |-> at \cup {row}]

\* update aircraft set ... where id = id
UpdateAircraft(caller, id, data, at) ==
  LET target == { a \in at : a.id = id /\ AircraftUpdatePolicy(caller) }
      updated == { [a EXCEPT !.registration = data.registration,
                             !.status = data.status] : a \in target }
      result == (at \ target) \cup updated
  IN  IF ~registration_unique(result) THEN [error |-> "unique", aircraft |-> at]
      ELSE [error |-> NoError, aircraft |-> result]

\* delete from aircraft where id = id; the routes of a deleted aircraft go
\* with it (ON DELETE CASCADE)
DeleteAircraft(caller, id, at, fr) ==
  LET target == { a \in at : a.id = id /\ AircraftDeletePolicy(caller) }
  IN  [error |-> NoError,
       aircraft |-> at \ target,
       routes |-> { r \in fr : \A a \in target : r.aircraft_id # a.id }]

\* insert into flight_routes
InsertRoute(caller, id, data, at, fr) ==
  LET row == [id |-> id, aircraft_id |-> data.aircraft_id,
              departure_time |-> data.departure_time,
              arrival_time |-> data.arrival_time]
  IN  IF ~RoutesInsertPolicy(caller) THEN [error |-> "rls", routes |-> fr]
      ELSE IF ~valid_times(row) THEN [error |-> "check", routes |-> fr]
      ELSE IF ~aircraft_id_fkey(row, at) THEN [error |-> "fkey", routes |-> fr]
      ELSE [error |-> NoError, routes |-> fr \cup {row}]

\* update flight_routes set ... where id = id
UpdateRoute(caller, id, data, at, fr) ==
  LET target == { r \in fr : r.id = id /\ RoutesUpdatePolicy(caller) }
      updated == { [r EXCEPT !.aircraft_id = data.aircraft_id,
                             !.departure_time = data.departure_time,
                             !.arrival_time = data.arrival_time] : r \in target }
  IN  IF \E row \in updated : ~valid_times(row) THEN [error |-> "check", routes |-> fr]
      ELSE IF \E row \in updated : ~aircraft_id_fkey(row, at)
        THEN [error |-> "fkey", routes |-> fr]
      ELSE [error |-> NoError, routes |-> (fr \ target) \cup updated]

\* delete from flight_routes where id = id
DeleteRoute(caller, id, fr) ==
  LET target == { r \in fr : r.id = id /\ RoutesDeletePolicy(caller) }
  IN  [error |-> NoError, routes |-> fr \ target]

\* ------------------------------------------- the store: accounts and profiles
\* Texts that are examined character by character (login identifiers, e-mail
\* addresses, profile codes) are sequences of one-character strings.
LowerChars == <<"a", "b", "c", "d", "e", "f", "g", "h", "i", "j", "k", "l", "m",
                "n", "o", "p", "q", "r", "s", "t", "u", "v", "w", "x", "y", "z">>
UpperChars == <<"A", "B", "C", "D", "E", "F", "G", "H", "I", "J", "K", "L", "M",
                "N", "O", "P", "Q", "R", "S", "T", "U", "V", "W", "X", "Y", "Z">>

\* one character of String.prototype.toUpperCase / SQL UPPER
UpperChar(c) ==
  IF \E i \in 1 .. 26 : LowerChars[i] = c
    THEN UpperChars[CHOOSE i \in 1 .. 26 : LowerChars[i] = c]
    ELSE c

\* String.prototype.toUpperCase; SQL UPPER
toUpperCase(str) == [i \in 1 .. Len(str) |-> UpperChar(str[i])]

\* SQL TRIM: leading and trailing spaces removed
RECURSIVE TRIM(_)
TRIM(str) ==
  IF str = <<>> THEN str
  ELSE IF Head(str) = " " THEN TRIM(Tail(str))
  ELSE IF str[Len(str)] = " " THEN TRIM(SubSeq(str, 1, Len(str) - 1))
  ELSE str

\* [A-Za-z]
IsLetter(c) == \E k \in 1 .. 26 : c = LowerChars[k] \/ c = UpperChars[k]

\* /^[A-Za-z]{4}$/.test(str)
FourLetters(str) ==
  /\ Len(str) = 4
  /\ \A i \in 1 .. 4 : IsLetter(str[i])

\* z.string().email(): the pattern zod tests an address against, for
\* addresses of letters, digits, dots and @: a local part, one @, and a
\* domain of dot-separated labels that ends in a label of two or more
\* letters; neither side begins or ends with a dot or has two dots in a row
IsEmail(str) ==
  LET DotAtoms(part) ==
        /\ part # <<>>
        /\ \A i \in 1 .. Len(part) :
             \/ IsLetter(part[i])
             \/ part[i] \in {"0", "1", "2", "3", "4", "5", "6", "7", "8", "9", "."}
        /\ part[1] # "."
        /\ part[Len(part)] # "."
        /\ \A i \in 1 .. Len(part) - 1 : ~(part[i] = "." /\ part[i + 1] = ".")
  IN  \E at \in 1 .. Len(str) :
        LET domain == SubSeq(str, at + 1, Len(str))
        IN  /\ str[at] = "@"
            /\ DotAtoms(SubSeq(str, 1, at - 1))
            /\ DotAtoms(domain)
            /\ \E dot \in 1 .. Len(domain) :
                 /\ domain[dot] = "."
                 /\ Len(domain) - dot >= 2
                 /\ \A i \in dot + 1 .. Len(domain) : IsLetter(domain[i])

\* profiles.code IS NULL
NoCode == <<>>

\* accounts that exist before the first step; profiles.role is the column the
\* roles were migrated from into user_roles
SeedAuthUsers ==
  { [id |-> "plan1", email |-> <<"p", "@", "x", ".", "i", "o">>, password |-> "secret1"],
    [id |-> "ctrl1", email |-> <<"c", "@", "x", ".", "i", "o">>, password |-> "secret1"],
    [id |-> "admin1", email |-> <<"a", "@", "x", ".", "i", "o">>, password |-> "secret1"] }

SeedProfiles ==
  { [id |-> "plan1", email |-> <<"p", "@", "x", ".", "i", "o">>, full_name |-> <<"P", "l">>,
     role |-> "planner", code |-> <<"P", "L", "A", "N">>],
    [id |-> "ctrl1", email |-> <<"c", "@", "x", ".", "i", "o">>, full_name |-> <<"C", "o">>,
     role |-> "controller", code |-> NoCode],
    [id |-> "admin1", email |-> <<"a", "@", "x", ".", "i", "o">>, full_name |-> <<"A", "d">>,
     role |-> "admin", code |-> <<"A", "D", "M", "N">>] }

\* the id auth gives to the account created for an e-mail address (stands
\* for gen_random_uuid())
NewUserId(email) == IF email = <<"n", "@", "x", ".", "i", "o">> THEN "new1" ELSE "new2"

\* policy "Users can view all profiles" (USING auth.uid() IS NOT NULL)
ProfilesSelectPolicy(caller) == caller # NoUser

\* policy "Users can update own profile", USING (auth.uid() = id)
ProfilesUpdateUsing(caller, row) == caller = row.id

\* slip: the WITH CHECK clause of the first version of the policy, which has
\* none beyond the USING expression
ProfilesUpdateCheck_MNoRole(caller, new, pt) == caller = new.id

\* policy "Users can update own profile", WITH CHECK: the new row is the
\* caller's and its role equals the role the caller's profile has in the
\* table as the statement found it (a NULL role compares as not true)
ProfilesUpdateCheck(caller, new, pt) ==
  /\ caller = new.id
  /\ \E p \in pt : p.id = caller /\ p.role = new.role

\* policy "Admins can manage all roles" (FOR ALL; USING and WITH CHECK)
UserRolesManagePolicy(caller) == has_role(caller, "admin")

\* CHECK (code IS NULL OR LENGTH(code) = 4)
profiles_code_length_check(row) == row.code = NoCode \/ Len(row.code) = 4

\* UNIQUE INDEX ON profiles (UPPER(code)) WHERE code IS NOT NULL
profiles_code_unique_idx(table) ==
  \A a \in table : \A b \in table :
    (a.code # NoCode /\ b.code # NoCode /\ toUpperCase(a.code) = toUpperCase(b.code))
      => a.id = b.id

\* select email from profiles where code = code, .single(): the one row the
\* caller may see, or an error when there is none (or more than one)
SelectProfileByCode(caller, code, pt) ==
  LET rows == { p \in pt : ProfilesSelectPolicy(caller) /\ p.code = code }
  IN  IF Cardinality(rows) = 1
        THEN [error |-> NoError, data |-> CHOOSE p \in rows : TRUE]
        ELSE [error |-> "single", data |-> [id |-> NoUser]]

\* update profiles set role = data.role, code = data.code where id = id
UpdateProfile(caller, id, data, pt) ==
  LET target == { p \in pt : p.id = id /\ ProfilesUpdateUsing(caller, p) }
      updated == { [p EXCEPT !.role = data.role, !.code = data.code] : p \in target }
      result == (pt \ target) \cup updated
  IN  IF \E new \in updated : ~ProfilesUpdateCheck(caller, new, pt)
        THEN [error |-> "rls", profiles |-> pt]
      ELSE IF \E new \in updated : ~profiles_code_length_check(new)
        THEN [error |-> "check", profiles |-> pt]
      ELSE IF ~profiles_code_unique_idx(result)
        THEN [error |-> "unique", profiles |-> pt]
      ELSE [error |-> NoError, profiles |-> result]

\* insert into user_roles (user_id, role); UNIQUE (user_id, role)
InsertUserRole(caller, row, ur) ==
  IF ~UserRolesManagePolicy(caller) THEN [error |-> "rls", user_roles |-> ur]
  ELSE IF row \in ur THEN [error |-> "unique", user_roles |-> ur]
  ELSE [error |-> NoError, user_roles |-> ur \cup {row}]

\* update user_roles set role = role where user_id = row.user_id and role =
\* row.role
UpdateUserRole(caller, row, role, ur) ==
  LET target == { x \in ur : x = row /\ UserRolesManagePolicy(caller) }
      updated == { [x EXCEPT !.role = role] : x \in target }
  IN  IF updated # {} /\ ~UserRolesManagePolicy(caller)
        THEN [error |-> "rls", user_roles |-> ur]
      ELSE IF \E new \in updated : new \in ur \ target
        THEN [error |-> "unique", user_roles |-> ur]
      ELSE [error |-> NoError, user_roles |-> (ur \ target) \cup updated]

\* delete from user_roles where user_id = row.user_id and role = row.role
DeleteUserRole(caller, row, ur) ==
  LET target == { x \in ur : x = row /\ UserRolesManagePolicy(caller) }
  IN  [error |-> NoError, user_roles |-> ur \ target]

\* trigger function handle_new_user(): the rows added for the new account
handle_new_user(NEWROW, pt, ur) ==
  LET trimmed == toUpperCase(TRIM(NEWROW.raw_user_meta_data.code))
      user_code == IF trimmed = <<>> \/ Len(trimmed) # 4 THEN NoCode ELSE trimmed
  IN  [profiles |-> pt \cup { [id |-> NEWROW.id, email |-> NEWROW.email,
                               full_name |-> NEWROW.raw_user_meta_data.full_name,
                               role |-> "planner", code |-> user_code] },
       user_roles |-> ur \cup { [user_id |-> NEWROW.id, role |-> "planner"] }]

\* auth.signUp: a new account for an e-mail address that has none, with the
\* rows of handle_new_user; the insert into auth.users fails as a whole when
\* the trigger's insert violates the unique index on the code
signUp(email, password, data, au, pt, ur) ==
  LET NEWROW == [id |-> NewUserId(email), email |-> email, raw_user_meta_data |-> data]
      rows == handle_new_user(NEWROW, pt, ur)
  IN  IF \E u \in au : u.email = email
        THEN [error |-> "User already registered",
              auth_users |-> au, profiles |-> pt, user_roles |-> ur]
      ELSE IF ~profiles_code_unique_idx(rows.profiles)
        THEN [error |-> "Database error saving new user",
              auth_users |-> au, profiles |-> pt, user_roles |-> ur]
      ELSE [error |-> NoError,
            auth_users |-> au \cup { [id |-> NEWROW.id, email |-> email, password |-> password] },
            profiles |-> rows.profiles,
            user_roles |-> rows.user_roles]

\* auth.signInWithPassword: the account with this e-mail address and password
signInWithPassword(email, password, au) ==
  LET found == { u \in au : u.email = email /\ u.password = password }
  IN  IF found = {} THEN [error |-> "Invalid login credentials", user |-> NoUser]
      ELSE [error |-> NoError, user |-> (CHOOSE u \in found : TRUE).id]

\* ------------------------------------------------ the flight dialog form
\* The text of a datetime-local input, YYYY-MM-DDTHH:mm, as its calendar day
\* (the number of the day YYYY-MM-DD), hours and minutes.
\* slip: the local fields (getFullYear ... getMinutes) of the browser's zone
formatUTCForInput_MLocal(t) ==
  [date |-> LocalFields(t) \div DAY,
   hours |-> (LocalFields(t) % DAY) \div HOUR,
   minutes |-> (LocalFields(t) % HOUR) \div 60000]

\* formatUTCForInput: the UTC fields of an instant down to the minute
formatUTCForInput(t) ==
  [date |-> t \div DAY,
   hours |-> (t % DAY) \div HOUR,
   minutes |-> (t % HOUR) \div 60000]

\* parseAsUTC: Date.UTC(year, month - 1, day, hours, minutes, 0)
parseAsUTC(dateTimeLocal) ==
  dateTimeLocal.date * DAY + dateTimeLocal.hours * HOUR + dateTimeLocal.minutes * 60000

\* the two time inputs as the effect fills them in when a route is opened
setFormData(route) ==
  [departure_time |-> formatUTCForInput(route.departure_time),
   arrival_time |-> formatUTCForInput(route.arrival_time)]


\* ------------------------------------------------------------------ Init
\* no row / no toast
NoRow == [id |-> 0]
NoToast == [kind |-> "none"]

\* the first id handed out to a new row
FirstNewId == Cardinality(SeedRoutes) + 1

\* the GanttView and the store after the page is mounted on a day of PickDays
InitView ==
  /\ tz \in Zones
  /\ aircraft_table = SeedAircraft
  /\ flight_routes = SeedRoutes
  /\ aircraft = {}
  /\ routes = {}
  /\ loading = TRUE
  /\ timeView = 24
  /\ \E today \in PickDays :
       /\ startDate = today * DAY
       /\ endDate = addDays(today * DAY, DefaultRangeDays)
       /\ pending = SetToBag({ FetchFor(today * DAY, addDays(today * DAY, DefaultRangeDays)) })

\* the client of a signed-in user: dialogs closed, nothing requested
InitClient(user, mounted) ==
  /\ user_roles = SeedUserRoles
  /\ id_seq = FirstNewId
  /\ sent = 0
  /\ uid = user
  /\ reqs = {}
  /\ acDialog = [open |-> FALSE, aircraft |-> NoRow, loading |-> FALSE]
  /\ frDialog = [open |-> FALSE, route |-> NoRow, loading |-> FALSE]
  /\ deleteDialog = [open |-> FALSE, route |-> NoRow]
  /\ toast = NoToast
  /\ profiles = SeedProfiles
  /\ auth_users = SeedAuthUsers
  /\ authPage = [route |-> IF user = NoUser THEN "/auth" ELSE "/dashboard",
                 isLoading |-> FALSE, response |-> NoError]
  /\ acList = [aircraft |-> {}, loading |-> TRUE,
               fetching |-> IF mounted = "AircraftList" THEN 1 ELSE 0]

Init ==
  /\ InitView
  /\ InitClient("plan1", "GanttView")

\* --------------------------------------------------------------- actions
\* the end date after the start picker chose utcDate: an end date before the
\* new start is replaced by the start plus two days
EndAfterStartSelect(utcDate, ed) ==
  IF utcDate > ed THEN addDays(utcDate, DefaultRangeDays) ELSE ed

\* slip: the start date is kept when the new end date lies before it
StartAfterEndSelect_MKeep(utcDate, sd) == sd

\* the start date after the end picker chose utcDate: a start date after the
\* new end is replaced by the end minus two days
StartAfterEndSelect(utcDate, sd) ==
  IF utcDate < sd THEN addDays(utcDate, -DefaultRangeDays) ELSE sd

\* start-date picker onSelect (rendered once the first fetch has finished),
\* followed by the effect on [startDate, endDate], while fewer than limit
\* fetchData calls are in flight
onSelectStart(day, limit) ==
  LET utcDate == day * DAY
      newEnd == EndAfterStartSelect(utcDate, endDate)
  IN  /\ ~loading
      /\ BagCardinality(pending) < limit
      /\ startDate' = utcDate
      /\ endDate' = newEnd
      /\ pending' = pending (+) SetToBag({ FetchFor(utcDate, newEnd) })
      /\ UNCHANGED <<aircraft_table, flight_routes, aircraft, routes, loading, timeView>>
      /\ UNCHANGED clientVars

SelectStartDate(day) == onSelectStart(day, MaxPending)

\* end-date picker onSelect (rendered once the first fetch has finished),
\* followed by the effect on [startDate, endDate], while fewer than limit
\* fetchData calls are in flight
onSelectEnd(day, limit) ==
  LET utcDate == day * DAY + END_OF_DAY
      newStart == StartAfterEndSelect(utcDate, startDate)
  IN  /\ ~loading
      /\ BagCardinality(pending) < limit
      /\ endDate' = utcDate
      /\ startDate' = newStart
      /\ pending' = pending (+) SetToBag({ FetchFor(newStart, utcDate) })
      /\ UNCHANGED <<aircraft_table, flight_routes, aircraft, routes, loading, timeView>>
      /\ UNCHANGED clientVars

SelectEndDate(day) == onSelectEnd(day, MaxPending)

\* granularity Select onValueChange (rendered once the first fetch has
\* finished)
SetTimeView(value) ==
  /\ ~loading
  /\ value # timeView
  /\ timeView' = value
  /\ UNCHANGED <<aircraft_table, flight_routes, aircraft, routes, loading,
                 startDate, endDate, pending>>
  /\ UNCHANGED clientVars

\* both queries of one fetchData call answered without error
FetchSucceed(f) ==
  /\ BagIn(f, pending)
  /\ aircraft' = AircraftQuery(aircraft_table)
  /\ routes' = RoutesQuery(flight_routes, f.gte, f.lte)
  /\ loading' = FALSE
  /\ pending' = pending (-) SetToBag({f})
  /\ UNCHANGED <<aircraft_table, flight_routes, timeView, startDate, endDate>>
  /\ UNCHANGED clientVars

\* slip: the aircraft list of the answer is applied although the routes
\* query failed
FetchFail_MHalf(f) ==
  /\ BagIn(f, pending)
  /\ aircraft' = AircraftQuery(aircraft_table)
  /\ loading' = FALSE
  /\ pending' = pending (-) SetToBag({f})
  /\ toast' = [kind |-> "error", by |-> "GanttView", message |-> "Failed to load data"]
  /\ UNCHANGED <<aircraft_table, flight_routes, routes, timeView, startDate, endDate>>
  /\ UNCHANGED <<user_roles, id_seq, sent, uid, reqs, acDialog, frDialog, deleteDialog>>
  /\ UNCHANGED <<authVars, acList>>

\* one of the two queries of a fetchData call answered with an error
FetchFail(f) ==
  /\ BagIn(f, pending)
  /\ loading' = FALSE
  /\ pending' = pending (-) SetToBag({f})
  /\ toast' = [kind |-> "error", by |-> "GanttView", message |-> "Failed to load data"]
  /\ UNCHANGED <<aircraft_table, flight_routes, aircraft, routes, timeView,
                 startDate, endDate>>
  /\ UNCHANGED <<user_roles, id_seq, sent, uid, reqs, acDialog, frDialog, deleteDialog>>
  /\ UNCHANGED <<authVars, acList>>

\* GanttView's window: the two date pickers and the granularity Select, with
\* the fetches the window effect starts.  The other handlers of the same
\* component (Add Flight, edit, delete) are the actions of NextFlights.
Next ==
  \/ \E day \in PickDays : SelectStartDate(day)
  \/ \E day \in PickDays : SelectEndDate(day)
  \/ \E value \in TimeViews : SetTimeView(value)
  \/ \E f \in BagToSet(pending) : FetchSucceed(f)
  \/ \E f \in BagToSet(pending) : FetchFail(f)

Spec == Init /\ [][Next]_vars

\* the renders the layout functions are applied in: the window controls
\* with every fetch answered without error
NextLayout ==
  \/ \E day \in PickDays : SelectStartDate(day)
  \/ \E day \in PickDays : SelectEndDate(day)
  \/ \E value \in TimeViews : SetTimeView(value)
  \/ \E f \in BagToSet(pending) : FetchSucceed(f)

SpecLayout == Init /\ [][NextLayout]_vars

\* the window changed again before the fetch of the change before it (or of
\* the mount) is answered, every fetch being answered without error
NextWindows ==
  \/ \E day \in PickDays : onSelectStart(day, MaxPending + 1)
  \/ \E day \in PickDays : onSelectEnd(day, MaxPending + 1)
  \/ \E f \in BagToSet(pending) : FetchSucceed(f)

SpecWindows == Init /\ [][NextWindows]_vars

\* ---------------------------------------------------------------- render
\* slip: the bars are drawn without the filter on position.visible
RenderedBars_MNoFilter ==
  IF loading THEN {}
  ELSE { [route |-> r,
          position |-> getFlightPosition(r.departure_time, r.arrival_time)] :
         r \in { x \in routes : \E ac \in aircraft : x.aircraft_id = ac.id } }

\* the flight bars drawn: per listed aircraft, its routes whose position is
\* visible (nothing is drawn while loading)
RenderedBars ==
  IF loading THEN {}
  ELSE { [route |-> r,
          position |-> getFlightPosition(r.departure_time, r.arrival_time)] :
         r \in { x \in routes :
                   /\ \E ac \in aircraft : x.aircraft_id = ac.id
                   /\ getFlightPosition(x.departure_time, x.arrival_time).visible } }

\* ======================================================================
\* The dialogs and the store
\* ======================================================================
\* registrations typed into the aircraft form: one held by a seed row, one new
Registrations == {"N123AB", "N900XY"}

\* date-times typed into the two inputs of the flight form
FormTimes == { formatUTCForInput(T0 + 5 * HOUR), formatUTCForInput(T0 + 10 * HOUR) }

NoDialogOpen == ~acDialog.open /\ ~frDialog.open /\ ~deleteDialog.open

\* the Dashboard of any of the seeded users on the first day, in a browser
\* on UTC, over a store holding the two active aircraft with a flight each.
\* The Dashboard shows one tab at a time (Tabs, defaultValue "gantt"): the
\* component of the selected tab is mounted, its first fetch in flight; the
\* component of the other tab is not mounted.
InitStore(mounted) ==
  /\ tz = UTCZone
  /\ aircraft_table = { a \in SeedAircraft : a.status = "active" }
  /\ flight_routes = { r \in SeedRoutes : r.id \in {1, 4} }
  /\ aircraft = {}
  /\ routes = {}
  /\ loading = TRUE
  /\ timeView = 24
  /\ startDate = T0
  /\ endDate = addDays(T0, DefaultRangeDays)
  /\ pending = IF mounted = "GanttView"
                 THEN SetToBag({ FetchFor(T0, addDays(T0, DefaultRangeDays)) })
                 ELSE EmptyBag
  /\ \E user \in Users : InitClient(user, mounted)

\* a change request may be sent: fewer than MaxRequests were sent and fewer
\* than MaxInFlight await their response
CanSend == sent < MaxRequests /\ Cardinality(reqs) < MaxInFlight

\* error.message of a response that failed before the store handled the
\* request (an expired session, the network); "" is an error without message
TransportErrors == {"JWT expired", ""}

\* error.message || fallback
ErrorMessage(message, fallback) == IF message = "" THEN fallback ELSE message

\* AircraftList fetchAircraft up to the await (called as onSuccess of the
\* aircraft dialog and after a delete): one more call awaits its response
fetchAircraft == [acList EXCEPT !.fetching = @ + 1]

\* fetchAircraft from the await on, the query answered without error: every
\* aircraft row, whatever its status
fetchAircraftSucceed ==
  /\ acList.fetching > 0
  /\ acList' = [aircraft |-> aircraft_table, loading |-> FALSE,
                fetching |-> acList.fetching - 1]
  /\ UNCHANGED <<aircraft_table, flight_routes, aircraft, routes, loading, timeView,
                 startDate, endDate, pending, user_roles, id_seq, sent, uid, reqs,
                 acDialog, frDialog, deleteDialog, toast>>
  /\ UNCHANGED authVars

\* fetchAircraft from the await on, the query answered with an error
fetchAircraftFail ==
  /\ acList.fetching > 0
  /\ acList' = [acList EXCEPT !.loading = FALSE, !.fetching = @ - 1]
  /\ toast' = [kind |-> "error", by |-> "AircraftList", message |-> "Failed to load aircraft"]
  /\ UNCHANGED <<aircraft_table, flight_routes, aircraft, routes, loading, timeView,
                 startDate, endDate, pending, user_roles, id_seq, sent, uid, reqs,
                 acDialog, frDialog, deleteDialog>>
  /\ UNCHANGED authVars

\* AircraftList: 'Add Aircraft' (item = NoRow) or 'Edit' of a listed item;
\* the dialog's loading flag is state of AircraftDialog and is left as it is
OpenAircraftDialog(item) ==
  /\ ~acList.loading
  /\ NoDialogOpen
  /\ acDialog' = [acDialog EXCEPT !.open = TRUE, !.aircraft = item]
  /\ UNCHANGED <<aircraft_table, flight_routes, aircraft, routes, loading, timeView,
                 startDate, endDate, pending, user_roles, id_seq, sent, uid, reqs,
                 frDialog, deleteDialog, toast>>
  /\ UNCHANGED <<authVars, acList>>

\* AircraftDialog handleSubmit up to the await: the insert (no aircraft
\* selected) or the update of the selected aircraft is sent
AircraftSubmit(registration) ==
  LET insert == acDialog.aircraft = NoRow
      formData == [registration |-> registration,
                   status |-> IF insert THEN "active" ELSE acDialog.aircraft.status]
  IN  /\ acDialog.open
      /\ ~acDialog.loading
      /\ CanSend
      /\ sent' = sent + 1
      /\ acDialog' = [acDialog EXCEPT !.loading = TRUE]
      /\ reqs' = reqs \cup
           { [n |-> sent,
              kind |-> IF insert THEN "aircraft_insert" ELSE "aircraft_update",
              by |-> "AircraftDialog",
              caller |-> uid,
              id |-> IF insert THEN 0 ELSE acDialog.aircraft.id,
              data |-> formData] }
      /\ UNCHANGED <<aircraft_table, flight_routes, aircraft, routes, loading,
                     timeView, startDate, endDate, pending, user_roles, id_seq,
                     uid, frDialog, deleteDialog, toast>>
      /\ UNCHANGED <<authVars, acList>>

\* the store answers request r (a new row gets its id from the store);
\* AircraftDialog handleSubmit from the await on
AircraftRespond(r) ==
  LET insert == r.kind = "aircraft_insert"
      res == IF insert
               THEN InsertAircraft(r.caller, id_seq, r.data, aircraft_table)
               ELSE UpdateAircraft(r.caller, r.id, r.data, aircraft_table)
  IN  /\ r \in reqs
      /\ r.kind \in {"aircraft_insert", "aircraft_update"}
      /\ r.by = "AircraftDialog"
      /\ aircraft_table' = res.aircraft
      /\ id_seq' = IF insert /\ res.error = NoError THEN id_seq + 1 ELSE id_seq
      /\ IF res.error = NoError
           THEN /\ toast' = [kind |-> "success", by |-> "AircraftDialog",
                             message |-> IF insert THEN "Aircraft added successfully"
                                                   ELSE "Aircraft updated successfully"]
                /\ acList' = fetchAircraft
                /\ acDialog' = [acDialog EXCEPT !.open = FALSE, !.loading = FALSE]
           ELSE /\ toast' = [kind |-> "error", by |-> "AircraftDialog",
                             message |-> ErrorMessage(res.error, "Failed to save aircraft")]
                /\ acList' = acList
                /\ acDialog' = [acDialog EXCEPT !.loading = FALSE]
      /\ reqs' = reqs \ {r}
      /\ UNCHANGED <<flight_routes, aircraft, routes, loading, timeView, startDate,
                     endDate, pending, user_roles, sent, uid, frDialog, deleteDialog>>
      /\ UNCHANGED authVars

\* the request r of the dialog fails (the response carries an error that
\* is not the store's verdict); AircraftDialog handleSubmit from the await
\* on, through its catch block
AircraftSubmitFail(r, message) ==
  /\ r \in reqs
  /\ r.kind \in {"aircraft_insert", "aircraft_update"}
  /\ toast' = [kind |-> "error", by |-> "AircraftDialog",
               message |-> ErrorMessage(message, "Failed to save aircraft")]
  /\ acDialog' = [acDialog EXCEPT !.loading = FALSE]
  /\ reqs' = reqs \ {r}
  /\ UNCHANGED <<aircraft_table, flight_routes, aircraft, routes, loading, timeView,
                 startDate, endDate, pending, user_roles, id_seq, sent, uid,
                 frDialog, deleteDialog>>
  /\ UNCHANGED <<authVars, acList>>

\* AircraftDialog: Cancel, Escape or a click outside (onOpenChange(false))
CloseAircraftDialog ==
  /\ acDialog.open
  /\ acDialog' = [acDialog EXCEPT !.open = FALSE]
  /\ UNCHANGED <<aircraft_table, flight_routes, aircraft, routes, loading, timeView,
                 startDate, endDate, pending, user_roles, id_seq, sent, uid, reqs,
                 frDialog, deleteDialog, toast>>
  /\ UNCHANGED <<authVars, acList>>

\* AircraftList handleDelete up to the await ('Delete' of a listed item)
handleDelete(id) ==
  /\ ~acList.loading
  /\ NoDialogOpen
  /\ CanSend
  /\ sent' = sent + 1
  /\ reqs' = reqs \cup { [n |-> sent, kind |-> "aircraft_delete", by |-> "AircraftList",
                          caller |-> uid, id |-> id] }
  /\ UNCHANGED <<aircraft_table, flight_routes, aircraft, routes, loading, timeView,
                 startDate, endDate, pending, user_roles, id_seq, uid, acDialog,
                 frDialog, deleteDialog, toast>>
  /\ UNCHANGED <<authVars, acList>>

\* a delete of an aircraft row sent to the store without a session
AnonymousDelete(id) ==
  /\ CanSend
  /\ sent' = sent + 1
  /\ reqs' = reqs \cup { [n |-> sent, kind |-> "aircraft_delete", by |-> "api",
                          caller |-> NoUser, id |-> id] }
  /\ UNCHANGED <<aircraft_table, flight_routes, aircraft, routes, loading, timeView,
                 startDate, endDate, pending, user_roles, id_seq, uid, acDialog,
                 frDialog, deleteDialog, toast>>
  /\ UNCHANGED <<authVars, acList>>

\* the store answers the delete r of an aircraft row; AircraftList
\* handleDelete from the await on when the list sent it
AircraftDeleteRespond(r) ==
  LET res == DeleteAircraft(r.caller, r.id, aircraft_table, flight_routes)
  IN  /\ r \in reqs
      /\ r.kind = "aircraft_delete"
      /\ aircraft_table' = res.aircraft
      /\ flight_routes' = res.routes
      /\ toast' = IF r.by = "AircraftList"
                    THEN [kind |-> "success", by |-> "AircraftList",
                          message |-> "Aircraft deleted successfully"]
                    ELSE toast
      /\ acList' = IF r.by = "AircraftList" THEN fetchAircraft ELSE acList
      /\ reqs' = reqs \ {r}
      /\ UNCHANGED <<aircraft, routes, loading, timeView, startDate, endDate,
                     pending, user_roles, id_seq, sent, uid, acDialog, frDialog,
                     deleteDialog>>
      /\ UNCHANGED authVars

\* the delete r sent by the list fails (the response carries an error);
\* AircraftList handleDelete from the await on, through its catch block
AircraftDeleteFail(r, message) ==
  /\ r \in reqs
  /\ r.kind = "aircraft_delete"
  /\ r.by = "AircraftList"
  /\ toast' = [kind |-> "error", by |-> "AircraftList",
               message |-> ErrorMessage(message, "Failed to delete aircraft")]
  /\ reqs' = reqs \ {r}
  /\ UNCHANGED <<aircraft_table, flight_routes, aircraft, routes, loading, timeView,
                 startDate, endDate, pending, user_roles, id_seq, sent, uid,
                 acDialog, frDialog, deleteDialog>>
  /\ UNCHANGED <<authVars, acList>>

\* ======================================================================
\* GanttView: 'Add Flight' (route = NoRow), or handleEdit of a drawn bar; the
\* dialog's loading flag is state of FlightRouteDialog and is left as it is
OpenFlightDialog(route) ==
  /\ ~loading
  /\ NoDialogOpen
  /\ frDialog' = [frDialog EXCEPT !.open = TRUE, !.route = route]
  /\ UNCHANGED <<aircraft_table, flight_routes, aircraft, routes, loading, timeView,
                 startDate, endDate, pending, user_roles, id_seq, sent, uid, reqs,
                 acDialog, deleteDialog, toast>>
  /\ UNCHANGED <<authVars, acList>>

\* FlightRouteDialog handleSubmit up to the await: the two inputs are parsed
\* as UTC and the insert (no route selected) or the update is sent; route and
\* onSuccess are the props of the render the form is submitted in
FlightSubmit(aircraft_id, departure_time, arrival_time) ==
  LET insert == frDialog.route = NoRow
      data == [aircraft_id |-> aircraft_id,
               departure_time |-> parseAsUTC(departure_time),
               arrival_time |-> parseAsUTC(arrival_time)]
  IN  /\ frDialog.open
      /\ ~frDialog.loading
      /\ CanSend
      /\ sent' = sent + 1
      /\ frDialog' = [frDialog EXCEPT !.loading = TRUE]
      /\ reqs' = reqs \cup
           { [n |-> sent,
              kind |-> IF insert THEN "route_insert" ELSE "route_update",
              by |-> "FlightRouteDialog",
              caller |-> uid,
              id |-> IF insert THEN 0 ELSE frDialog.route.id,
              data |-> data,
              route |-> frDialog.route,
              onSuccess |-> fetchData("onSuccess")] }
      /\ UNCHANGED <<aircraft_table, flight_routes, aircraft, routes, loading,
                     timeView, startDate, endDate, pending, user_roles, id_seq,
                     uid, acDialog, deleteDialog, toast>>
      /\ UNCHANGED <<authVars, acList>>

\* slip: the dialog is closed on the error path too
FlightRespond_MAlwaysClose(r) ==
  LET insert == r.kind = "route_insert"
      res == IF insert
               THEN InsertRoute(r.caller, id_seq, r.data, aircraft_table, flight_routes)
               ELSE UpdateRoute(r.caller, r.id, r.data, aircraft_table, flight_routes)
  IN  /\ r \in reqs
      /\ r.kind \in {"route_insert", "route_update"}
      /\ flight_routes' = res.routes
      /\ id_seq' = IF insert /\ res.error = NoError THEN id_seq + 1 ELSE id_seq
      /\ IF res.error = NoError
           THEN /\ toast' = [kind |-> "success", by |-> "FlightRouteDialog",
                             message |-> IF insert THEN "Flight added successfully"
                                                   ELSE "Flight updated successfully"]
                /\ pending' = pending (+) SetToBag({ r.onSuccess })
           ELSE /\ toast' = [kind |-> "error", by |-> "FlightRouteDialog",
                             message |-> ErrorMessage(res.error, "Failed to save flight")]
                /\ pending' = pending
      /\ frDialog' = [frDialog EXCEPT !.open = FALSE, !.loading = FALSE]
      /\ reqs' = reqs \ {r}
      /\ UNCHANGED <<aircraft_table, aircraft, routes, loading, timeView, startDate,
                     endDate, user_roles, sent, uid, acDialog, deleteDialog>>
      /\ UNCHANGED <<authVars, acList>>

\* the store answers request r (a new row gets its id from the store);
\* FlightRouteDialog handleSubmit from the await on
FlightRespond(r) ==
  LET insert == r.kind = "route_insert"
      res == IF insert
               THEN InsertRoute(r.caller, id_seq, r.data, aircraft_table, flight_routes)
               ELSE UpdateRoute(r.caller, r.id, r.data, aircraft_table, flight_routes)
  IN  /\ r \in reqs
      /\ r.kind \in {"route_insert", "route_update"}
      /\ flight_routes' = res.routes
      /\ id_seq' = IF insert /\ res.error = NoError THEN id_seq + 1 ELSE id_seq
      /\ IF res.error = NoError
           THEN /\ toast' = [kind |-> "success", by |-> "FlightRouteDialog",
                             message |-> IF insert THEN "Flight added successfully"
                                                   ELSE "Flight updated successfully"]
                /\ pending' = pending (+) SetToBag({ r.onSuccess })
                /\ frDialog' = [frDialog EXCEPT !.open = FALSE, !.loading = FALSE]
           ELSE /\ toast' = [kind |-> "error", by |-> "FlightRouteDialog",
                             message |-> ErrorMessage(res.error, "Failed to save flight")]
                /\ pending' = pending
                /\ frDialog' = [frDialog EXCEPT !.loading = FALSE]
      /\ reqs' = reqs \ {r}
      /\ UNCHANGED <<aircraft_table, aircraft, routes, loading, timeView, startDate,
                     endDate, user_roles, sent, uid, acDialog, deleteDialog>>
      /\ UNCHANGED <<authVars, acList>>

\* the request r of the dialog fails (the response carries an error that
\* is not the store's verdict); FlightRouteDialog handleSubmit from the
\* await on, through its catch block
FlightSubmitFail(r, message) ==
  /\ r \in reqs
  /\ r.kind \in {"route_insert", "route_update"}
  /\ toast' = [kind |-> "error", by |-> "FlightRouteDialog",
               message |-> ErrorMessage(message, "Failed to save flight")]
  /\ frDialog' = [frDialog EXCEPT !.loading = FALSE]
  /\ reqs' = reqs \ {r}
  /\ UNCHANGED <<aircraft_table, flight_routes, aircraft, routes, loading, timeView,
                 startDate, endDate, pending, user_roles, id_seq, sent, uid,
                 acDialog, deleteDialog>>
  /\ UNCHANGED <<authVars, acList>>

\* FlightRouteDialog: Cancel, Escape or a click outside (onOpenChange(false))
CloseFlightDialog ==
  /\ frDialog.open
  /\ frDialog' = [frDialog EXCEPT !.open = FALSE]
  /\ UNCHANGED <<aircraft_table, flight_routes, aircraft, routes, loading, timeView,
                 startDate, endDate, pending, user_roles, id_seq, sent, uid, reqs,
                 acDialog, deleteDialog, toast>>
  /\ UNCHANGED <<authVars, acList>>

\* GanttView handleDeleteClick of a drawn bar
handleDeleteClick(route) ==
  /\ ~loading
  /\ NoDialogOpen
  /\ deleteDialog' = [open |-> TRUE, route |-> route]
  /\ UNCHANGED <<aircraft_table, flight_routes, aircraft, routes, loading, timeView,
                 startDate, endDate, pending, user_roles, id_seq, sent, uid, reqs,
                 acDialog, frDialog, toast>>
  /\ UNCHANGED <<authVars, acList>>

\* the confirmation's Delete button, an AlertDialogAction: the click runs
\* GanttView handleDeleteConfirm up to its await, then the action closes the
\* confirmation through onOpenChange(false), which is setDeleteDialogOpen;
\* routeToDelete keeps its value. The fetchData the handler will call is
\* that of the render it is clicked in
handleDeleteConfirm ==
  /\ deleteDialog.open
  /\ IF deleteDialog.route = NoRow
       THEN UNCHANGED <<sent, reqs>>
       ELSE /\ CanSend
            /\ sent' = sent + 1
            /\ reqs' = reqs \cup { [n |-> sent, kind |-> "route_delete",
                                    by |-> "GanttView", caller |-> uid,
                                    id |-> deleteDialog.route.id,
                                    fetchData |-> fetchData("handleDeleteConfirm")] }
  /\ deleteDialog' = [deleteDialog EXCEPT !.open = FALSE]
  /\ UNCHANGED <<aircraft_table, flight_routes, aircraft, routes, loading, timeView,
                 startDate, endDate, pending, user_roles, id_seq, uid, acDialog,
                 frDialog, toast>>
  /\ UNCHANGED <<authVars, acList>>

\* the store answers the delete r; GanttView handleDeleteConfirm from the
\* await on
RouteDeleteRespond(r) ==
  LET res == DeleteRoute(r.caller, r.id, flight_routes)
  IN  /\ r \in reqs
      /\ r.kind = "route_delete"
      /\ flight_routes' = res.routes
      /\ toast' = [kind |-> "success", by |-> "GanttView",
                   message |-> "Flight deleted successfully"]
      /\ deleteDialog' = [open |-> FALSE, route |-> NoRow]
      /\ pending' = pending (+) SetToBag({ r.fetchData })
      /\ reqs' = reqs \ {r}
      /\ UNCHANGED <<aircraft_table, aircraft, routes, loading, timeView, startDate,
                     endDate, user_roles, id_seq, sent, uid, acDialog, frDialog>>
      /\ UNCHANGED <<authVars, acList>>

\* the delete r fails (the response carries an error); GanttView
\* handleDeleteConfirm from the await on, through its catch block: a toast
\* only, so the confirmation stays as the click left it
RouteDeleteFail(r, message) ==
  /\ r \in reqs
  /\ r.kind = "route_delete"
  /\ toast' = [kind |-> "error", by |-> "GanttView",
               message |-> ErrorMessage(message, "Failed to delete flight")]
  /\ reqs' = reqs \ {r}
  /\ UNCHANGED <<aircraft_table, flight_routes, aircraft, routes, loading, timeView,
                 startDate, endDate, pending, user_roles, id_seq, sent, uid,
                 acDialog, frDialog, deleteDialog>>
  /\ UNCHANGED <<authVars, acList>>

\* the delete confirmation: Cancel, Escape (onOpenChange(false))
CancelDelete ==
  /\ deleteDialog.open
  /\ deleteDialog' = [deleteDialog EXCEPT !.open = FALSE]
  /\ UNCHANGED <<aircraft_table, flight_routes, aircraft, routes, loading, timeView,
                 startDate, endDate, pending, user_roles, id_seq, sent, uid, reqs,
                 acDialog, frDialog, toast>>
  /\ UNCHANGED <<authVars, acList>>

\* the fleet page: AircraftList, its dialog and the store
NextAircraft ==
  \/ fetchAircraftSucceed
  \/ fetchAircraftFail
  \/ \E item \in acList.aircraft \cup {NoRow} : OpenAircraftDialog(item)
  \/ \E registration \in Registrations : AircraftSubmit(registration)
  \/ \E r \in reqs : AircraftRespond(r)
  \/ \E r \in reqs : \E message \in TransportErrors : AircraftSubmitFail(r, message)
  \/ CloseAircraftDialog
  \/ \E a \in acList.aircraft : handleDelete(a.id)
  \/ \E a \in aircraft_table : AnonymousDelete(a.id)
  \/ \E r \in reqs : AircraftDeleteRespond(r)
  \/ \E r \in reqs : \E message \in TransportErrors : AircraftDeleteFail(r, message)

SpecAircraft == InitStore("AircraftList") /\ [][NextAircraft]_vars

\* the schedule page: GanttView under a fixed window, its two dialogs, the
\* store and the fetches, answered or failed (the window controls are the
\* actions of Next)
NextFlights ==
  \/ \E route \in { b.route : b \in RenderedBars } \cup {NoRow} : OpenFlightDialog(route)
  \/ \E a \in aircraft : \E dep \in FormTimes : \E arr \in FormTimes :
       FlightSubmit(a.id, dep, arr)
  \/ \E r \in reqs : FlightRespond(r)
  \/ \E r \in reqs : \E message \in TransportErrors : FlightSubmitFail(r, message)
  \/ CloseFlightDialog
  \/ \E route \in { b.route : b \in RenderedBars } : handleDeleteClick(route)
  \/ handleDeleteConfirm
  \/ \E r \in reqs : RouteDeleteRespond(r)
  \/ \E r \in reqs : \E message \in TransportErrors : RouteDeleteFail(r, message)
  \/ CancelDelete
  \/ \E f \in BagToSet(pending) : FetchSucceed(f)
  \/ \E f \in BagToSet(pending) : FetchFail(f)

SpecFlights == InitStore("GanttView") /\ [][NextFlights]_vars

\* the delete confirmation of the schedule tab and the store
NextDelete ==
  \/ \E f \in BagToSet(pending) : FetchSucceed(f)
  \/ \E route \in { b.route : b \in RenderedBars } : handleDeleteClick(route)
  \/ handleDeleteConfirm
  \/ \E r \in reqs : RouteDeleteRespond(r)
  \/ \E r \in reqs : \E message \in TransportErrors : RouteDeleteFail(r, message)
  \/ CancelDelete

SpecDelete == InitStore("GanttView") /\ [][NextDelete]_vars

\* the edit form of the flight dialog over the whole seeded store, used by
\* an admin in any of the zones: a drawn bar is opened, each time input is
\* left as the effect filled it in or is retyped, and the update is sent
InitEditForm ==
  /\ InitView
  /\ InitClient("admin1", "GanttView")

NextEditForm ==
  \/ \E f \in BagToSet(pending) : FetchSucceed(f)
  \/ \E route \in { b.route : b \in RenderedBars } : OpenFlightDialog(route)
  \/ /\ frDialog.route # NoRow
     /\ \E dep \in {setFormData(frDialog.route).departure_time} \cup FormTimes :
          \E arr \in {setFormData(frDialog.route).arrival_time} \cup FormTimes :
            FlightSubmit(frDialog.route.aircraft_id, dep, arr)
  \/ \E r \in reqs : FlightRespond(r)
  \/ \E r \in reqs : \E message \in TransportErrors : FlightSubmitFail(r, message)
  \/ CloseFlightDialog

SpecEditForm == InitEditForm /\ [][NextEditForm]_vars

\* the two form dialogs, each on its tab, with the fetches their onSuccess
\* starts
NextDialogs ==
  \/ fetchAircraftSucceed
  \/ \E item \in acList.aircraft \cup {NoRow} : OpenAircraftDialog(item)
  \/ \E registration \in Registrations : AircraftSubmit(registration)
  \/ \E r \in reqs : AircraftRespond(r)
  \/ \E r \in reqs : \E message \in TransportErrors : AircraftSubmitFail(r, message)
  \/ CloseAircraftDialog
  \/ \E f \in BagToSet(pending) : FetchSucceed(f)
  \/ \E route \in { b.route : b \in RenderedBars } \cup {NoRow} : OpenFlightDialog(route)
  \/ \E a \in aircraft : \E dep \in FormTimes : \E arr \in FormTimes :
       FlightSubmit(a.id, dep, arr)
  \/ \E r \in reqs : FlightRespond(r)
  \/ \E r \in reqs : \E message \in TransportErrors : FlightSubmitFail(r, message)
  \/ CloseFlightDialog

\* the Dashboard on either of its tabs
InitDashboard == \E mounted \in {"GanttView", "AircraftList"} : InitStore(mounted)

SpecDialogs == InitDashboard /\ [][NextDialogs]_vars

\* ======================================================================
\* The Auth page and direct requests on the accounts
\* ======================================================================
\* the Auth page of a visitor without a session, over the seeded store
InitAuth ==
  /\ tz = UTCZone
  /\ aircraft_table = { a \in SeedAircraft : a.status = "active" }
  /\ flight_routes = { r \in SeedRoutes : r.id \in {1, 4} }
  /\ aircraft = {}
  /\ routes = {}
  /\ loading = TRUE
  /\ timeView = 24
  /\ startDate = T0
  /\ endDate = addDays(T0, DefaultRangeDays)
  /\ pending = EmptyBag
  /\ InitClient(NoUser, "Auth")

\* what the Auth page and the direct requests leave alone
pageVars == <<aircraft_table, flight_routes, aircraft, routes, loading, timeView,
              startDate, endDate, pending, id_seq, acDialog, frDialog,
              deleteDialog, acList, tz>>

\* loginSchema.parse(loginData): the messages of the issues found, in the
\* order of the schema's keys (none when the data is valid)
loginSchema(loginData) ==
  (IF Len(loginData.emailOrCode) < 1
     THEN <<"Email or code is required">> ELSE <<>>)
  \o (IF Len(loginData.password) < 6
        THEN <<"Password must be at least 6 characters">> ELSE <<>>)

\* Auth handleLogin up to its first await: the form is validated and invalid
\* input is reported at once with the first issue; a four-letter identifier
\* is looked up as a code in profiles, any other is signed in with as the
\* e-mail address
handleLogin(emailOrCode, password) ==
  LET loginData == [emailOrCode |-> emailOrCode, password |-> password]
      errors == loginSchema(loginData)
      isCode == Len(emailOrCode) = 4 /\ FourLetters(emailOrCode)
  IN  /\ authPage.route = "/auth"
      /\ ~authPage.isLoading
      /\ CanSend
      /\ sent' = sent + 1
      /\ IF errors # <<>>
           THEN /\ reqs' = reqs
                /\ authPage' = authPage
                /\ toast' = [kind |-> "error", by |-> "Auth", message |-> errors[1]]
           ELSE /\ reqs' = reqs \cup
                     { IF isCode
                         THEN [n |-> sent, kind |-> "profile_lookup", by |-> "Auth",
                               caller |-> uid, emailOrCode |-> emailOrCode,
                               code |-> toUpperCase(emailOrCode),
                               password |-> password]
                         ELSE [n |-> sent, kind |-> "sign_in", by |-> "Auth",
                               caller |-> uid, emailOrCode |-> emailOrCode,
                               email |-> emailOrCode, password |-> password] }
                /\ authPage' = [authPage EXCEPT !.isLoading = TRUE]
                /\ toast' = toast
      /\ UNCHANGED <<user_roles, uid, profiles, auth_users>>
      /\ UNCHANGED pageVars

\* the store answers the lookup r of a code in profiles, made with the
\* session the page had when it was sent; Auth handleLogin from its first
\* await to its second: without a row the login ends with an error,
\* otherwise the password sign-in is sent with the e-mail address found
handleLoginLookupRespond(r) ==
  LET lookup == SelectProfileByCode(r.caller, r.code, profiles)
  IN  /\ r \in reqs
      /\ r.kind = "profile_lookup"
      /\ IF lookup.error # NoError
           THEN /\ reqs' = reqs \ {r}
                /\ toast' = [kind |-> "error", by |-> "Auth",
                             message |-> "Invalid code or code not found"]
                /\ authPage' = [authPage EXCEPT !.isLoading = FALSE]
           ELSE /\ reqs' = (reqs \ {r}) \cup
                     { [n |-> r.n, kind |-> "sign_in", by |-> "Auth",
                        caller |-> r.caller, emailOrCode |-> r.emailOrCode,
                        email |-> lookup.data.email, password |-> r.password] }
                /\ authPage' = authPage
                /\ toast' = toast
      /\ UNCHANGED <<user_roles, sent, uid, profiles, auth_users>>
      /\ UNCHANGED pageVars

\* auth answers the password sign-in r; Auth handleLogin from its second
\* await on
handleLoginSignInRespond(r) ==
  LET res == signInWithPassword(r.email, r.password, auth_users)
  IN  /\ r \in reqs
      /\ r.kind = "sign_in"
      /\ reqs' = reqs \ {r}
      /\ IF res.error # NoError
           THEN /\ toast' = [kind |-> "error", by |-> "Auth", message |-> res.error]
                /\ authPage' = [authPage EXCEPT !.isLoading = FALSE]
                /\ uid' = uid
           ELSE /\ toast' = [kind |-> "success", by |-> "Auth",
                             message |-> "Logged in successfully"]
                /\ authPage' = [authPage EXCEPT !.isLoading = FALSE,
                                                !.route = "/dashboard"]
                /\ uid' = res.user
      /\ UNCHANGED <<user_roles, sent, profiles, auth_users>>
      /\ UNCHANGED pageVars

\* the 4-Letter Code input (maxLength 4): onChange keeps
\* value.toUpperCase().replace(/[^A-Za-z]/g, '')
setSignupCode(value) == SelectSeq(toUpperCase(value), IsLetter)

\* authSchema.parse(signupData): the messages of the issues found, in the
\* order of the schema's keys (none when the data is valid)
authSchema(signupData) ==
  (IF ~IsEmail(signupData.email) THEN <<"Invalid email address">> ELSE <<>>)
  \o (IF Len(signupData.password) < 6
        THEN <<"Password must be at least 6 characters">> ELSE <<>>)
  \o (IF Len(signupData.fullName) < 2
        THEN <<"Full name must be at least 2 characters">> ELSE <<>>)
  \o (IF Len(signupData.code) # 4
        THEN <<"Code must be exactly 4 characters">> ELSE <<>>)

\* Auth handleSignup up to its await, on the form as it was filled in: the
\* code is tested, then the form is validated; invalid input is reported at
\* once, otherwise the sign-up is sent
handleSignup(email, password, fullName, codeTyped) ==
  LET signupData == [email |-> email, password |-> password,
                     fullName |-> fullName, code |-> setSignupCode(codeTyped)]
      errors == authSchema(signupData)
  IN  /\ authPage.route = "/auth"
      /\ ~authPage.isLoading
      /\ CanSend
      /\ sent' = sent + 1
      /\ IF signupData.code # <<>> /\ ~FourLetters(signupData.code)
           THEN /\ reqs' = reqs
                /\ authPage' = authPage
                /\ toast' = [kind |-> "error", by |-> "Auth",
                             message |-> "Code must be exactly 4 letters"]
           ELSE IF errors # <<>>
             THEN /\ reqs' = reqs
                  /\ authPage' = authPage
                  /\ toast' = [kind |-> "error", by |-> "Auth", message |-> errors[1]]
             ELSE /\ reqs' = reqs \cup
                       { [n |-> sent, kind |-> "sign_up", by |-> "Auth",
                          caller |-> uid, email |-> signupData.email,
                          password |-> signupData.password,
                          data |-> [full_name |-> signupData.fullName,
                                    code |-> toUpperCase(signupData.code)]] }
                  /\ authPage' = [authPage EXCEPT !.isLoading = TRUE]
                  /\ toast' = toast
      /\ UNCHANGED <<user_roles, uid, profiles, auth_users>>
      /\ UNCHANGED pageVars

\* auth answers the sign-up r; Auth handleSignup from its await on. The new
\* account is signed in at once or has to confirm its address first
\* (session), as the project is configured; the page goes to the dashboard
\* whenever the answer holds a user
handleSignupRespond(r, session) ==
  LET res == signUp(r.email, r.password, r.data, auth_users, profiles, user_roles)
  IN  /\ r \in reqs
      /\ r.kind = "sign_up"
      /\ reqs' = reqs \ {r}
      /\ IF res.error # NoError
           THEN /\ toast' = [kind |-> "error", by |-> "Auth", message |-> res.error]
                /\ authPage' = [authPage EXCEPT !.isLoading = FALSE]
                /\ UNCHANGED <<auth_users, profiles, user_roles, uid>>
           ELSE /\ toast' = [kind |-> "success", by |-> "Auth",
                             message |-> "Account created successfully"]
                /\ auth_users' = res.auth_users
                /\ profiles' = res.profiles
                /\ user_roles' = res.user_roles
                /\ uid' = IF session THEN NewUserId(r.email) ELSE uid
                /\ authPage' = [authPage EXCEPT !.isLoading = FALSE,
                                                !.route = "/dashboard"]
      /\ UNCHANGED sent
      /\ UNCHANGED pageVars

\* Dashboard, the effect run when it is shown: without a session it sends
\* the visitor to /auth (getSession and onAuthStateChange)
DashboardGetSession ==
  /\ authPage.route = "/dashboard"
  /\ uid = NoUser
  /\ authPage' = [authPage EXCEPT !.route = "/auth", !.isLoading = FALSE]
  /\ UNCHANGED <<user_roles, sent, uid, reqs, toast, profiles, auth_users>>
  /\ UNCHANGED pageVars

\* Dashboard handleLogout up to its await (the Logout button of the header,
\* shown once the session's user is known)
handleLogout ==
  /\ authPage.route = "/dashboard"
  /\ uid # NoUser
  /\ CanSend
  /\ sent' = sent + 1
  /\ reqs' = reqs \cup { [n |-> sent, kind |-> "sign_out", by |-> "Dashboard",
                          caller |-> uid] }
  /\ UNCHANGED <<user_roles, uid, toast, profiles, auth_users, authPage>>
  /\ UNCHANGED pageVars

\* auth.signOut r is answered; Dashboard handleLogout from its await on:
\* with an error the session is kept and the error is shown, without one the
\* session is removed and the visitor is sent to /auth
handleLogoutRespond(r, error) ==
  /\ r \in reqs
  /\ r.kind = "sign_out"
  /\ reqs' = reqs \ {r}
  /\ IF error
       THEN /\ toast' = [kind |-> "error", by |-> "Dashboard",
                         message |-> "Error logging out"]
            /\ UNCHANGED <<uid, authPage>>
       ELSE /\ toast' = [kind |-> "success", by |-> "Dashboard",
                         message |-> "Logged out successfully"]
            /\ uid' = NoUser
            /\ authPage' = [authPage EXCEPT !.route = "/auth"]
  /\ UNCHANGED <<user_roles, sent, profiles, auth_users>>
  /\ UNCHANGED pageVars

\* auth.signUp called directly with metadata of the caller's choice
ApiSignUp(email, data) ==
  LET res == signUp(email, "secret1", data, auth_users, profiles, user_roles)
  IN  /\ sent < MaxRequests
      /\ sent' = sent + 1
      /\ auth_users' = res.auth_users
      /\ profiles' = res.profiles
      /\ user_roles' = res.user_roles
      /\ authPage' = [authPage EXCEPT !.response = res.error]
      /\ UNCHANGED <<uid, reqs, toast>>
      /\ UNCHANGED pageVars

\* an update of a profiles row sent directly with the caller's session
ApiUpdateProfile(id, data) ==
  LET res == UpdateProfile(uid, id, data, profiles)
  IN  /\ sent < MaxRequests
      /\ sent' = sent + 1
      /\ profiles' = res.profiles
      /\ authPage' = [authPage EXCEPT !.response = res.error]
      /\ UNCHANGED <<user_roles, auth_users, uid, reqs, toast>>
      /\ UNCHANGED pageVars

\* an insert, update or delete on user_roles sent directly with the caller's
\* session
ApiUserRole(op, row, role) ==
  LET res == CASE op = "insert" -> InsertUserRole(uid, row, user_roles)
               [] op = "update" -> UpdateUserRole(uid, row, role, user_roles)
               [] op = "delete" -> DeleteUserRole(uid, row, user_roles)
  IN  /\ sent < MaxRequests
      /\ sent' = sent + 1
      /\ user_roles' = res.user_roles
      /\ authPage' = [authPage EXCEPT !.response = res.error]
      /\ UNCHANGED <<profiles, auth_users, uid, reqs, toast>>
      /\ UNCHANGED pageVars

\* a signed-in user opens /auth again: the page is shown anew, the session
\* stays
NavigateAuth ==
  /\ authPage.route = "/dashboard"
  /\ uid # NoUser
  /\ authPage' = [authPage EXCEPT !.route = "/auth", !.isLoading = FALSE]
  /\ UNCHANGED <<user_roles, sent, uid, reqs, toast, profiles, auth_users>>
  /\ UNCHANGED pageVars

\* The steps of the Auth page, the Dashboard's session handling and direct
\* requests. What is typed into the login form (both fields are required):
\* as 'Email or Code' an address, the code of a profile in lower and in
\* upper case, a code no profile has, four characters that are not all
\* letters; as password the one of the seeded accounts, a wrong one, a
\* short one. What is typed into the sign-up form (every field is
\* required): an address that has no account, one that has, one without a
\* top-level domain; a password; a name of one and of two characters; a free
\* code, a taken code and keys of which one letter is left.
NextAuth ==
  \/ \E emailOrCode \in { <<"p", "@", "x", ".", "i", "o">>, <<"p", "l", "a", "n">>,
                          <<"P", "L", "A", "N">>, <<"z", "z", "z", "z">>,
                          <<"p", "l", "4", "n">> } :
       \E password \in {"secret1", "secret9", "short"} :
         handleLogin(emailOrCode, password)
  \/ \E r \in reqs : handleLoginLookupRespond(r)
  \/ \E r \in reqs : handleLoginSignInRespond(r)
  \/ \E email \in { <<"n", "@", "x", ".", "i", "o">>, <<"p", "@", "x", ".", "i", "o">>,
                    <<"n", "@", "x">> } :
       \E password \in {"secret1", "short"} :
         \E fullName \in { <<"N">>, <<"N", "e">> } :
           \E codeTyped \in { <<"n", "e", "w", "x">>, <<"p", "l", "a", "n">>,
                              <<"n", "1">> } :
             handleSignup(email, password, fullName, codeTyped)
  \/ \E r \in reqs : \E session \in BOOLEAN : handleSignupRespond(r, session)
  \/ DashboardGetSession
  \/ handleLogout
  \/ \E r \in reqs : \E error \in BOOLEAN : handleLogoutRespond(r, error)
  \/ ApiSignUp(<<"n", "@", "x", ".", "i", "o">>, [full_name |-> <<>>,
                              code |-> <<" ", "n", "e", "w", "x">>, role |-> "admin"])
  \/ \E p \in profiles : \E role \in {"planner", "controller", "admin"} :
       \E code \in {p.code, <<"A", "D", "M", "N">>} :
         ApiUpdateProfile(p.id, [role |-> role, code |-> code])
  \/ \E op \in {"insert", "update", "delete"} : \E p \in profiles :
       \E role \in {"admin", "controller"} :
         ApiUserRole(op, [user_id |-> p.id,
                          role |-> IF op = "insert" THEN role ELSE "planner"], role)
  \/ NavigateAuth

SpecAuth == InitAuth /\ [][NextAuth]_vars

\* ======================================================================
\* Properties
\* ======================================================================
\* Flights the position function is examined on in every reachable window:
\* the rows of the store and departures around the window's edges and its
\* chunk boundaries, each with arrivals before, at and after the departure.
DepartureInputs ==
  { r.departure_time : r \in flight_routes }
  \cup { dayStart - 1, dayStart,
         dayStart + timeView * HOUR - 1, dayStart + timeView * HOUR,
         dayEnd, dayEnd + 1 }

ArrivalInputs(dep) == { dep - HOUR, dep, dep + 60000, dep + 30 * HOUR }

\* the first instant after the range the timeline draws
WindowEnd == dayStart + totalHoursInRange * HOUR

\* the route with this id is drawn
Bar(id) == { b \in RenderedBars : b.route.id = id }

\* C1: in every window, a flight whose departure lies in [dayStart, dayEnd]
\* is visible, with 0 <= leftPercent < 100 and widthPercent >= 0.5.
C1_InWindowVisible ==
  \A dep \in DepartureInputs : \A arr \in ArrivalInputs(dep) :
    (dayStart <= dep /\ dep <= dayEnd) =>
      LET p == getFlightPosition(dep, arr)
      IN  /\ p.visible = TRUE
          /\ RatLeq(RatInt(0), p.left)
          /\ RatLess(p.left, RatInt(100))
          /\ RatLeq(Rat(1, 2), p.width)

\* C2: a flight departing before dayStart, or at/after dayStart + totalHours,
\* gets visible = false, chunkIndex = -1, leftPercent = 0, widthPercent = 0,
\* whatever its arrival.
C2_OutsideNotVisible ==
  \A dep \in DepartureInputs : \A arr \in ArrivalInputs(dep) :
    (dep < dayStart \/ dep >= dayStart + totalHoursInRange * HOUR) =>
      getFlightPosition(dep, arr) =
        [left |-> [num |-> 0, den |-> 1], width |-> [num |-> 0, den |-> 1],
         visible |-> FALSE, chunkIndex |-> -1]

\* the view holds a route that departed before the window and one that
\* departs after it; neither is drawn
C2_Witness ==
  /\ ~loading
  /\ \E r \in routes :
       /\ r.departure_time < dayStart
       /\ \E ac \in aircraft : r.aircraft_id = ac.id
       /\ Bar(r.id) = {}
  /\ \E r \in routes :
       /\ r.departure_time >= dayStart + totalHoursInRange * HOUR
       /\ \E ac \in aircraft : r.aircraft_id = ac.id
       /\ Bar(r.id) = {}

\* C3: in every state of the view numChunks is the ceiling of
\* (numDays * 24) / chunkHours, chunkHours being the selected granularity
\* (6, 12 or 24): the least n with n * chunkHours >= numDays * 24.
C3_NumChunksIsCeiling ==
  /\ timeView \in {6, 12, 24}
  /\ numDays >= 1
  /\ numChunks * timeView >= numDays * 24
  /\ (numChunks - 1) * timeView < numDays * 24

\* a three-day window shown in 6-hour chunks, its end set by the end picker
C3_Witness ==
  /\ timeView = 6
  /\ numDays = 3
  /\ endDate % DAY = END_OF_DAY
  /\ numChunks = 12

\* C4: for a visible flight, chunkIndex = floor(hoursFromStart / chunkHours)
\* and leftPercent = (chunkIndex / numChunks) * 100
\*   + ((hoursFromStart mod chunkHours) / chunkHours) * (100 / numChunks);
\* in a 2-day window with 6-hour chunks a departure 7 hours after dayStart
\* has chunkIndex 1 and leftPercent 12.5 + 12.5 / 6 (= 175/12).
C4_LeftPercent ==
  /\ \A dep \in DepartureInputs : \A arr \in ArrivalInputs(dep) :
     \A p \in { getFlightPosition(dep, arr) } :
       LET ms == dep - dayStart
           chunkMs == timeView * HOUR
           c == p.chunkIndex
       IN  p.visible =>
             /\ c * chunkMs <= ms
             /\ ms < (c + 1) * chunkMs
             /\ p.left = RatAdd(Rat(c * 100, numChunks),
                                RatMul(Rat(ms - c * chunkMs, chunkMs),
                                       Rat(100, numChunks)))
  /\ (numDays = 2 /\ timeView = 6) =>
       LET p == getFlightPosition(dayStart + 7 * HOUR, dayStart + 8 * HOUR)
       IN  /\ numChunks = 8
           /\ p.visible
           /\ p.chunkIndex = 1
           /\ p.left = [num |-> 175, den |-> 12]

\* the 07:00 flight is drawn at 175/12 % in a 2-day window of 6-hour chunks
C4_Witness ==
  /\ numDays = 2
  /\ timeView = 6
  /\ \E b \in Bar(2) :
       /\ b.route.departure_time = dayStart + 7 * HOUR
       /\ b.position.chunkIndex = 1
       /\ b.position.left = [num |-> 175, den |-> 12]

\* C5: for a visible flight, widthPercent =
\* max(0.5, (duration / chunkHours) * (100 / numChunks)); in a 2-day window
\* with 24-hour chunks a 05:00-10:00 flight on the first day has leftPercent
\* = widthPercent = (5/24) * 50 (= 125/12), and a flight too short to reach
\* 0.5 % gets exactly 0.5.
C5_WidthPercent ==
  /\ \A dep \in DepartureInputs : \A arr \in ArrivalInputs(dep) :
     \A p \in { getFlightPosition(dep, arr) } :
       LET raw == RatMul(Rat(arr - dep, timeView * HOUR), Rat(100, numChunks))
       IN  p.visible =>
             /\ RatLess(raw, Rat(1, 2)) => p.width = [num |-> 1, den |-> 2]
             /\ ~RatLess(raw, Rat(1, 2)) => p.width = raw
  /\ (numDays = 2 /\ timeView = 24) =>
       LET p == getFlightPosition(dayStart + 5 * HOUR, dayStart + 10 * HOUR)
       IN  /\ p.visible
           /\ p.left = [num |-> 125, den |-> 12]
           /\ p.width = [num |-> 125, den |-> 12]

\* in a 2-day window of 24-hour chunks the 05:00-10:00 flight is drawn with
\* left = width = 125/12 % and the one-minute flight with width 0.5 %
C5_Witness ==
  /\ numDays = 2
  /\ timeView = 24
  /\ \E b \in Bar(1) :
       /\ b.route.departure_time = dayStart + 5 * HOUR
       /\ b.position.left = [num |-> 125, den |-> 12]
       /\ b.position.width = [num |-> 125, den |-> 12]
  /\ \E b \in Bar(2) :
       /\ b.route.arrival_time - b.route.departure_time = 60000
       /\ b.position.width = [num |-> 1, den |-> 2]

\* C6: visibility depends on the departure only, the window being the
\* range the timeline draws, [dayStart, dayStart + totalHours): departing
\* before dayStart and arriving inside the window gives visible = false;
\* departing inside the window gives visible = true even when arriving
\* after its end.
C6_VisibilityByDeparture ==
  \A dep \in DepartureInputs : \A arr \in ArrivalInputs(dep) :
    LET p == getFlightPosition(dep, arr)
    IN  /\ (dep < dayStart /\ arr > dayStart /\ arr < WindowEnd) => p.visible = FALSE
        /\ (dayStart <= dep /\ dep < WindowEnd /\ arr >= WindowEnd) => p.visible = TRUE

\* the view holds a route overlapping the window from before its start,
\* which is not drawn, and draws one that arrives after the window's end
C6_Witness ==
  /\ ~loading
  /\ \E r \in routes :
       /\ r.departure_time < dayStart
       /\ r.arrival_time > dayStart
       /\ r.arrival_time <= dayEnd
       /\ \E ac \in aircraft : r.aircraft_id = ac.id
       /\ Bar(r.id) = {}
  /\ \E b \in RenderedBars :
       /\ b.route.departure_time <= dayEnd
       /\ b.route.arrival_time > dayEnd

\* C7: a flight departing exactly at dayStart is visible with leftPercent 0
\* and chunkIndex 0; one departing exactly at 23:59:59.999 UTC of the end
\* date is visible with chunkIndex = numChunks - 1.
C7_Boundaries ==
  \A arr \in ArrivalInputs(dayStart) :
    LET first == getFlightPosition((startDate \div DAY) * DAY, arr)
        last == getFlightPosition((endDate \div DAY) * DAY + 86399999, arr)
    IN  /\ first.visible
        /\ first.left = [num |-> 0, den |-> 1]
        /\ first.chunkIndex = 0
        /\ last.visible
        /\ last.chunkIndex = numChunks - 1

\* C8: a flight whose arrival falls in a later chunk than its departure gets
\* one position: chunkIndex is the departure chunk and the width comes from
\* the full duration, so the bar's right edge (left + width) lies at the
\* arrival's place on the timeline, past the right edge of the departure
\* chunk (and possibly past 100 %).
C8_NotSplitNotTruncated ==
  \A dep \in DepartureInputs : \A arr \in ArrivalInputs(dep) :
   \A p \in { getFlightPosition(dep, arr) } :
    LET chunkMs == timeView * HOUR
        depChunk == (dep - dayStart) \div chunkMs
        arrChunk == (arr - dayStart) \div chunkMs
        rightEdge == RatAdd(p.left, p.width)
        chunkRight == Rat((depChunk + 1) * 100, numChunks)
        arrivalAt == RatMul(Rat(arr - dayStart, chunkMs), Rat(100, numChunks))
    IN  (p.visible /\ arr > dep /\ arrChunk > depChunk) =>
          /\ p.chunkIndex = depChunk
          /\ RatLeq(arrivalAt, rightEdge)
          /\ RatLeq(Rat(1, 2), RatAdd(arrivalAt, RatMul(RatInt(-1), p.left)))
               => rightEdge = arrivalAt
          /\ RatLeq(chunkRight, rightEdge)
          /\ arr - dayStart > (depChunk + 1) * chunkMs => RatLess(chunkRight, rightEdge)

\* a drawn flight whose bar runs past the right edge of its departure chunk
\* and past the end of the timeline
C8_Witness ==
  \E b \in RenderedBars :
    LET rightEdge == RatAdd(b.position.left, b.position.width)
    IN  /\ numChunks > 1
        /\ b.position.chunkIndex < numChunks - 1
        /\ RatLess(Rat((b.position.chunkIndex + 1) * 100, numChunks), rightEdge)
        /\ RatLess(RatInt(100), rightEdge)
        /\ b.route.arrival_time > dayEnd

\* C10: generateHourSeparators holds exactly one separator per whole-hour
\* boundary of the timeline: totalHours + 1 entries, the k-th at
\* k / totalHours of the width, so positions strictly increase from 0 to
\* 100 and no two entries share a position; no entry is hour 0 of a chunk
\* after the first.
C10_SeparatorsDistinct ==
  LET s == generateHourSeparators
  IN  /\ Len(s) = totalHoursInRange + 1
      /\ \A i \in 1 .. Len(s) :
           /\ s[i].position = Rat((i - 1) * 100, totalHoursInRange)
           /\ ~(s[i].hour = 0 /\ s[i].chunkIndex > 0)
      /\ \A i \in 1 .. (Len(s) - 1) : RatLess(s[i].position, s[i + 1].position)
      /\ s[1].position = [num |-> 0, den |-> 1]
      /\ s[Len(s)].position = [num |-> 100, den |-> 1]

\* several 6-hour chunks: the last separator of chunk 0 is followed by hour
\* 1 of chunk 1
C10_Witness ==
  LET s == generateHourSeparators
  IN  /\ timeView = 6
      /\ numChunks >= 4
      /\ s[7].chunkIndex = 0 /\ s[7].hour = 6
      /\ s[8].chunkIndex = 1 /\ s[8].hour = 1
      /\ Len(s) = totalHoursInRange + 1

\* C11: generateTimeLabels holds, chunk after chunk, the labels of the hour
\* offsets 0, interval, 2 * interval, ... below chunkHours (interval 1 for
\* 24- and 6-hour chunks, 2 for 12-hour chunks); each label's hour is
\* (chunkIndex * chunkHours + offset) mod 24 and its text is that hour as
\* two digits, zero padded, followed by ':00'.
C11_TimeLabels ==
  LET l == generateTimeLabels
      interval == IF timeView = 12 THEN 2 ELSE 1
      perChunk == timeView \div interval
  IN  /\ timeView \in {24, 12, 6}
      /\ Len(l) = numChunks * perChunk
      /\ \A c \in 0 .. (numChunks - 1) : \A j \in 0 .. (perChunk - 1) :
           LET e == l[c * perChunk + j + 1]
               h == (c * timeView + j * interval) % 24
           IN  /\ j * interval < timeView
               /\ e.chunkIndex = c
               /\ e.hour = h
               /\ e.label = <<DigitChars[(h \div 10) + 1], DigitChars[(h % 10) + 1],
                              ":", "0", "0">>

\* 12-hour chunks: the second label of chunk 1 reads '14:00' and the first
\* label of chunk 0 reads '00:00'; 6-hour chunks: chunk 3 ends with '23:00'
C11_Witness ==
  LET l == generateTimeLabels
  IN  \/ /\ timeView = 12
         /\ numChunks >= 2
         /\ l[1].label = <<"0", "0", ":", "0", "0">>
         /\ l[8].chunkIndex = 1
         /\ l[8].hour = 14
         /\ l[8].label = <<"1", "4", ":", "0", "0">>
      \/ /\ timeView = 6
         /\ numChunks >= 4
         /\ l[24].chunkIndex = 3
         /\ l[24].label = <<"2", "3", ":", "0", "0">>

\* C12: generateDateLabels holds exactly numChunks labels, one per chunk
\* index 0 .. numChunks - 1 in order, and the label of chunk i is the
\* calendar date of the window's start day (the UTC date of dayStart) plus
\* floor(i * chunkHours / 24) days, in every reachable state and whatever
\* the browser's zone.
C12_DateLabels ==
  LET l == generateDateLabels
  IN  /\ Len(l) = numChunks
      /\ \A i \in 0 .. (numChunks - 1) :
           /\ l[i + 1].chunkIndex = i
           /\ l[i + 1].label = (dayStart \div DAY) + ((i * timeView) \div 24)

\* C13: the window is never negative: after any sequence of start and end
\* selections endDate >= startDate, so numDays >= 1 and numChunks >= 1.
C13_WindowNotNegative ==
  /\ endDate >= startDate
  /\ numDays >= 1
  /\ numChunks >= 1
  /\ totalHoursInRange >= 24

\* the end picker chose a day before the start, which moved the start to
\* two days before the new end
C13_Witness ==
  /\ endDate % DAY = END_OF_DAY
  /\ startDate = addDays(endDate, -DefaultRangeDays)
  /\ startDate < endDate
  /\ numDays = 3

\* C14: numDays is the inclusive number of UTC calendar dates from the start
\* date to the end date, dayStart is 00:00:00.000 UTC of the start date and
\* dayEnd is 23:59:59.999 UTC of the end date, although each stored date
\* carries the time of day 00:00:00.000 or 23:59:59.999 of the picker or
\* auto-correction that set it last.
C14_WholeUTCDays ==
  /\ startDate % DAY \in {0, END_OF_DAY}
  /\ endDate % DAY \in {0, END_OF_DAY}
  /\ numDays = (endDate \div DAY) - (startDate \div DAY) + 1
  /\ dayStart = startDate - (startDate % DAY)
  /\ dayEnd = endDate - (endDate % DAY) + 86399999
  /\ dayEnd - dayStart + 1 = numDays * DAY

\* C15: fetched data has one writer at a time: at no time are two fetchData
\* calls (started by a window change, by a successful save through
\* onSuccess, or by a confirmed delete) in flight, each of which writes the
\* aircraft / routes state when it is answered.
C15_NoConcurrentWriters == BagCardinality(pending) <= 1

\* C16: every flight bar drawn belongs to a route whose departure lies in
\* the selected window [dayStart, dayStart + totalHours); a route held in
\* state that falls outside it (fetched for an earlier window) gets a
\* position with visible = false and is not drawn.
C16_BarsInsideWindow ==
  /\ \A b \in RenderedBars :
       /\ b.route \in routes
       /\ dayStart <= b.route.departure_time
       /\ b.route.departure_time < dayStart + totalHoursInRange * HOUR
  /\ \A r \in routes :
       (r.departure_time < dayStart
          \/ r.departure_time >= dayStart + totalHoursInRange * HOUR) =>
         /\ getFlightPosition(r.departure_time, r.arrival_time).visible = FALSE
         /\ \A b \in RenderedBars : b.route # r

\* the window moved while its fetch is unanswered: the state holds a route
\* of a listed aircraft, fetched for the earlier window, that departs outside
\* the new one and is not drawn, next to a route that is
C16_Witness ==
  /\ ~loading
  /\ pending # EmptyBag
  /\ RenderedBars # {}
  /\ \E r \in routes :
       /\ \E ac \in aircraft : r.aircraft_id = ac.id
       /\ r.departure_time > dayEnd
       /\ \A b \in RenderedBars : b.route.id # r.id

\* the request r, of one of these kinds, is answered in this step
Answered(r, kinds) == r \in reqs /\ r.kind \in kinds /\ reqs' = reqs \ {r}

\* the requests sent in this step
Sent == reqs' \ reqs

\* C17: every stored flight route has its arrival strictly after its
\* departure, and a create or edit submission whose arrival is at or before
\* its departure leaves the stored routes unchanged and is reported as an
\* error while the dialog stays open (onSuccess is not called).
C17_ArrivalAfterDeparture ==
  /\ [](\A r \in flight_routes : r.arrival_time > r.departure_time)
  /\ [][\A r \in reqs :
          (/\ Answered(r, {"route_insert", "route_update"})
           /\ r.data.arrival_time <= r.data.departure_time)
          => /\ flight_routes' = flight_routes
             /\ toast'.kind = "error"
             /\ toast'.by = "FlightRouteDialog"
             /\ frDialog'.open = frDialog.open
             /\ pending' = pending]_vars

\* C18 as stated: an aircraft insert sent from the aircraft dialog by a user
\* holding any of the roles planner, controller or admin is accepted by the
\* store's authorization policy.
C18_AnyRoleInserts ==
  [][\A r \in reqs :
       (/\ Answered(r, {"aircraft_insert"})
        /\ \E role \in {"planner", "controller", "admin"} : has_role(r.caller, role))
       => ~(toast'.kind = "error" /\ toast'.message = "rls")]_vars

\* C18 amended: an aircraft insert sent from the aircraft dialog is accepted
\* by the store's authorization policy when the user holds the admin or the
\* controller role; sent by a user holding neither (a planner) it is
\* rejected by the policy: the stored aircraft are unchanged, the error is
\* shown and the dialog is not closed.
C18_AdminOrControllerInserts ==
  [][\A r \in reqs :
     (AircraftRespond(r) /\ r.kind = "aircraft_insert") =>
       IF has_role(r.caller, "admin") \/ has_role(r.caller, "controller")
         THEN /\ ~(toast'.kind = "error" /\ toast'.message = "rls")
              /\ (\A a \in aircraft_table : a.registration # r.data.registration)
                   => /\ \E a \in aircraft_table' :
                           a.id = id_seq /\ a.registration = r.data.registration
                      /\ toast'.kind = "success"
         ELSE /\ toast'.kind = "error" /\ toast'.message = "rls"
              /\ aircraft_table' = aircraft_table
              /\ acDialog'.open = acDialog.open]_vars

\* the controller added an aircraft with a new registration
C18_Witness ==
  /\ uid = "ctrl1"
  /\ toast.kind = "success"
  /\ toast.message = "Aircraft added successfully"
  /\ \E a \in aircraft_table : a.id >= FirstNewId /\ a.registration = "N900XY"
  /\ ~acDialog.open

\* C19: an aircraft row leaves the store only through a delete by a user
\* holding the admin role; a delete sent by a controller, a planner or a
\* caller without a session leaves the stored aircraft and the stored
\* flight routes unchanged.
C19_OnlyAdminDeletes ==
  [][/\ ({ a.id : a \in aircraft_table } \subseteq { a.id : a \in aircraft_table' })
        \/ \E r \in reqs : Answered(r, {"aircraft_delete"}) /\ has_role(r.caller, "admin")
     /\ \A r \in reqs :
          (Answered(r, {"aircraft_delete"}) /\ ~has_role(r.caller, "admin"))
          => /\ aircraft_table' = aircraft_table
             /\ flight_routes' = flight_routes]_vars

\* the controller's delete from the aircraft list was answered and both
\* aircraft are still stored, each with its flight
C19_Witness ==
  /\ uid = "ctrl1"
  /\ toast.kind = "success"
  /\ toast.by = "AircraftList"
  /\ reqs = {}
  /\ \A id \in {1, 2} :
       /\ \E a \in aircraft_table : a.id = id
       /\ \E r \in flight_routes : r.aircraft_id = id

\* C20: no two stored aircraft share a registration, and an insert or edit
\* whose registration is that of another stored aircraft leaves the store
\* unchanged and is reported as an error while the dialog stays open.
C20_UniqueRegistrations ==
  /\ [](\A a \in aircraft_table : \A b \in aircraft_table :
          a.id # b.id => a.registration # b.registration)
  /\ [][\A r \in reqs :
          (/\ Answered(r, {"aircraft_insert", "aircraft_update"})
           /\ \E a \in aircraft_table :
                a.id # r.id /\ a.registration = r.data.registration)
          => /\ aircraft_table' = aircraft_table
             /\ toast'.kind = "error"
             /\ acDialog'.open = acDialog.open]_vars

\* the linear mapping of an offset of ms milliseconds onto a range of total
\* hours: (hours / total) * 100
LinearPercent(ms, total) == RatMul(Rat(ms, total * HOUR), RatInt(100))

\* the flights the granularities are compared on: the stored routes, and
\* one-minute flights departing just before and at the first chunk boundary
GranularityFlights ==
  { <<r.departure_time, r.arrival_time>> : r \in flight_routes }
  \cup { <<dep, dep + 60000>> :
           dep \in { dayStart + timeView * HOUR - 1, dayStart + timeView * HOUR } }

\* C23: changing only the chunk granularity never moves a flight: for every
\* window and every chunkHours in {6, 12, 24}, numChunks * chunkHours =
\* totalHours, and for every visible flight the chunked leftPercent is the
\* linear mapping (hoursFromStart / totalHours) * 100 and the unfloored
\* widthPercent is (duration / totalHours) * 100.
C23_GranularityIndependent ==
  /\ numDays >= 1
  /\ numChunks * timeView = totalHoursInRange
  /\ \A tv \in TimeViews :
       LET nc == CeilDiv(totalHoursInRange, tv)
       IN  /\ nc * tv = totalHoursInRange
           /\ \A f \in GranularityFlights :
                \A p \in { FlightPosition(f[1], f[2], dayStart, tv, nc, totalHoursInRange) } :
                  /\ p.visible = ~OutsideRange(Hours(f[1] - dayStart), totalHoursInRange)
                  /\ p.visible =>
                       \A linearWidth \in { LinearPercent(f[2] - f[1], totalHoursInRange) } :
                         /\ p.left = LinearPercent(f[1] - dayStart, totalHoursInRange)
                         /\ WidthPercent(Hours(f[2] - f[1]), tv, nc) = linearWidth
                         /\ p.width = RatMax(Rat(1, 2), linearWidth)

\* after a change of granularity to 6-hour chunks, a flight drawn in a later
\* chunk, off the chunk's left edge, stands at its linear place
C23_Witness ==
  /\ timeView = 6
  /\ \E b \in RenderedBars :
       /\ b.position.chunkIndex >= 1
       /\ (b.route.departure_time - dayStart) % (timeView * HOUR) # 0
       /\ b.position.left = LinearPercent(b.route.departure_time - dayStart, totalHoursInRange)
       /\ b.position.left # RatMul(Rat(b.position.chunkIndex, numChunks), RatInt(100))

\* C29: a selection that would make the window negative moves the other side
\* to exactly two days away, giving numDays = 3: a start date chosen after
\* the current end sets the end to start + 2 days, an end date chosen before
\* the current start sets the start to end - 2 days; any other selection
\* leaves the other side as it was.  (The start picker stores 00:00:00.000,
\* the end picker 23:59:59.999 of the chosen date.)
C29_AutoCorrectTwoDays ==
  [][/\ (startDate' # startDate /\ startDate' % DAY = 0) =>
          IF startDate' > endDate
            THEN /\ endDate' = startDate' + 2 * DAY
                 /\ NumDaysOf(startDate', endDate') = 3
            ELSE endDate' = endDate
     /\ (endDate' # endDate /\ endDate' % DAY = END_OF_DAY) =>
          IF endDate' < startDate
            THEN /\ startDate' = endDate' - 2 * DAY
                 /\ NumDaysOf(startDate', endDate') = 3
            ELSE startDate' = startDate
     /\ (startDate' # startDate \/ endDate' # endDate) =>
          \/ startDate' # startDate /\ startDate' % DAY = 0
          \/ endDate' # endDate /\ endDate' % DAY = END_OF_DAY]_vars

\* C25: a failed fetch changes neither list: a step that answers a fetchData
\* call sets loading to false and either applies both query results, or -
\* when one of the two queries failed - keeps both the aircraft and the
\* routes state and shows the error toast; the successful half alone is
\* never applied.
C25_FailedFetchKeepsLists ==
  [][\A f \in BagToSet(pending) :
       (pending' = pending (-) SetToBag({f})) =>
         /\ loading' = FALSE
         /\ \/ /\ aircraft' = AircraftQuery(aircraft_table)
               /\ routes' = RoutesQuery(flight_routes, f.gte, f.lte)
               /\ toast' = toast
            \/ /\ aircraft' = aircraft
               /\ routes' = routes
               /\ toast' = [kind |-> "error", by |-> "GanttView",
                            message |-> "Failed to load data"]]_vars

\* the fetch for a new window failed: the error toast is shown, nothing is
\* loading or in flight, and the lists still hold the answer for the window
\* shown before
C25_Witness ==
  /\ toast.kind = "error"
  /\ toast.by = "GanttView"
  /\ ~loading
  /\ pending = EmptyBag
  /\ aircraft # {}
  /\ routes # {}
  /\ routes # RoutesQuery(flight_routes, dayStart, dayEnd)

\* C24: once every fetch that was started has been answered successfully,
\* the routes held in the view's state are the result of the query for the
\* selected window (departure between dayStart and dayEnd), whatever the
\* order of the answers.
C24_RoutesOfCurrentWindow ==
  (pending = EmptyBag /\ ~loading) => routes = RoutesQuery(flight_routes, dayStart, dayEnd)

\* C27: a delete request is sent only with a route selected in the
\* confirmation (confirming with none sends nothing); when the request
\* fails the confirmation dialog is open, routeToDelete keeps its value and
\* no refetch is started; when it succeeds the confirmation is closed,
\* routeToDelete is cleared and one refetch is started.
C27_DeleteConfirm ==
  [][/\ \A r \in Sent :
          r.kind = "route_delete" =>
            /\ deleteDialog.open
            /\ deleteDialog.route # NoRow
            /\ r.id = deleteDialog.route.id
     /\ (deleteDialog.route = NoRow) => \A r \in Sent : r.kind # "route_delete"
     /\ \A r \in reqs :
          Answered(r, {"route_delete"}) =>
            \/ /\ toast'.kind = "error"
               /\ toast'.by = "GanttView"
               /\ deleteDialog'.open
               /\ deleteDialog'.route = deleteDialog.route
               /\ pending' = pending
            \/ /\ toast'.kind = "success"
               /\ toast'.by = "GanttView"
               /\ deleteDialog' = [open |-> FALSE, route |-> NoRow]
               /\ pending' = pending (+) SetToBag({ r.fetchData })
               /\ BagIn(r.fetchData, pending')]_vars

\* the answer of the store to the request r (an aircraft or route insert
\* or update)
StoreAnswer(r) ==
  CASE r.kind = "aircraft_insert" ->
         InsertAircraft(r.caller, id_seq, r.data, aircraft_table)
    [] r.kind = "aircraft_update" ->
         UpdateAircraft(r.caller, r.id, r.data, aircraft_table)
    [] r.kind = "route_insert" ->
         InsertRoute(r.caller, id_seq, r.data, aircraft_table, flight_routes)
    [] r.kind = "route_update" ->
         UpdateRoute(r.caller, r.id, r.data, aircraft_table, flight_routes)

\* C26: in the aircraft and the flight dialog a submission sets the dialog's
\* loading flag; when the store rejects it, onSuccess is not called and the
\* dialog is not closed; when the store accepts it, onSuccess is called
\* (fetchAircraft, fetchData) and the dialog is closed; either way the
\* loading flag is false when the submission has finished.
C26_SubmitPaths ==
  [][/\ \A r \in Sent :
          /\ r.kind \in {"aircraft_insert", "aircraft_update"} =>
               /\ ~acDialog.loading
               /\ acDialog'.loading
          /\ r.kind \in {"route_insert", "route_update"} =>
               /\ ~frDialog.loading
               /\ frDialog'.loading
     /\ \A r \in reqs :
          /\ Answered(r, {"aircraft_insert", "aircraft_update"}) =>
               /\ acDialog.loading
               /\ ~acDialog'.loading
               /\ IF AircraftRespond(r) /\ StoreAnswer(r).error = NoError
                    THEN /\ acList'.fetching = acList.fetching + 1
                         /\ ~acDialog'.open
                    ELSE /\ acList' = acList
                         /\ acDialog'.open = acDialog.open
          /\ Answered(r, {"route_insert", "route_update"}) =>
               /\ frDialog.loading
               /\ ~frDialog'.loading
               /\ IF FlightRespond(r) /\ StoreAnswer(r).error = NoError
                    THEN /\ BagIn(r.onSuccess, pending')
                         /\ pending' = pending (+) SetToBag({ r.onSuccess })
                         /\ ~frDialog'.open
                    ELSE /\ pending' = pending
                         /\ frDialog'.open = frDialog.open]_vars

\* a flight submission was accepted (the view, refetched through onSuccess,
\* holds the new flight) and a later one was rejected: the dialog is still
\* open, not loading, with the error shown and no fetch started
C26_Witness ==
  /\ \E r \in routes : r.id >= FirstNewId
  /\ toast.kind = "error"
  /\ toast.by = "FlightRouteDialog"
  /\ frDialog.open
  /\ ~frDialog.loading
  /\ reqs = {}
  /\ pending = EmptyBag

\* the roles a user holds in a user_roles table
RolesOf(user, ur) == { x.role : x \in { y \in ur : y.user_id = user } }

\* the role column of a user's row in a profiles table
ProfileRoles(user, pt) == { p.role : p \in { q \in pt : q.id = user } }

\* C21: role escalation is prevented: a new account starts with exactly the
\* planner role, in profiles.role and in user_roles, whatever its sign-up
\* metadata; and no step made with the session of a user who does not hold
\* the admin role (sign-ups, updates of profiles, requests on user_roles)
\* changes that user's - or any existing user's - profiles.role or adds the
\* admin or controller role to their user_roles.
C21_NoRoleEscalation ==
  [][/\ \A p \in profiles' :
          (\A q \in profiles : q.id # p.id) =>
            /\ p.role = "planner"
            /\ RolesOf(p.id, user_roles') = {"planner"}
     /\ ~has_role(uid, "admin") =>
          \A q \in profiles :
            /\ ProfileRoles(q.id, profiles') = {q.role}
            /\ (RolesOf(q.id, user_roles') \cap {"admin", "controller"})
                 \subseteq RolesOf(q.id, user_roles)]_vars

\* the account signed up in this run is signed in, its direct request for
\* another role was refused by row-level security, and it holds exactly the
\* planner role in both tables
C21_Witness ==
  /\ uid = "new1"
  /\ authPage.response = "rls"
  /\ sent = 2
  /\ ProfileRoles("new1", profiles) = {"planner"}
  /\ RolesOf("new1", user_roles) = {"planner"}

\* C22: login accepts an e-mail address or a four-letter code: for an
\* identifier of exactly four letters the password sign-in is attempted with
\* the e-mail address of the profile whose code is the identifier in upper
\* case; when there is no such profile no sign-in is attempted, the user is
\* not taken to the dashboard and an error is shown; any other identifier is
\* used as the e-mail address unchanged.
C22_LoginByEmailOrCode ==
  [][/\ \A r \in reqs :
          (r.kind = "profile_lookup" /\ r \notin reqs') =>
            /\ FourLetters(r.emailOrCode)
            /\ IF \E p \in profiles : p.code = toUpperCase(r.emailOrCode)
                 THEN \E p \in profiles :
                        /\ p.code = toUpperCase(r.emailOrCode)
                        /\ \E s \in Sent : /\ s.kind = "sign_in"
                                           /\ s.email = p.email
                                           /\ s.password = r.password
                 ELSE /\ Sent = {}
                      /\ authPage'.route = authPage.route
                      /\ uid' = uid
                      /\ toast'.kind = "error"
                      /\ toast'.by = "Auth"
     /\ \A s \in Sent :
          s.kind = "sign_in" =>
            \/ \E r \in reqs : r.kind = "profile_lookup" /\ r \notin reqs'
            \/ ~FourLetters(s.emailOrCode) /\ s.email = s.emailOrCode
     /\ \A s \in Sent :
          s.kind = "profile_lookup" => FourLetters(s.emailOrCode)]_vars

\* C28: for every stored instant t, parseAsUTC(formatUTCForInput(t)) is t
\* truncated to the whole minute (nothing of the browser's time zone enters
\* either conversion), and an update sent from the edit form with the two
\* time fields as the form filled them in stores the times of the opened
\* route truncated to the minute: the departure and the arrival of a route
\* whose times have zero seconds are stored as they were.
C28_UtcRoundTrip ==
  /\ [](\A r \in flight_routes : \A t \in {r.departure_time, r.arrival_time} :
          parseAsUTC(formatUTCForInput(t)) = t - (t % 60000))
  /\ [][\A q \in reqs :
          (/\ FlightRespond(q)
           /\ q.kind = "route_update"
           /\ StoreAnswer(q).error = NoError
           /\ \E r \in flight_routes : r.id = q.id /\ RoutesUpdatePolicy(q.caller)
           /\ q.data.departure_time = parseAsUTC(setFormData(q.route).departure_time)
           /\ q.data.arrival_time = parseAsUTC(setFormData(q.route).arrival_time))
          => \E r2 \in flight_routes' :
               /\ r2.id = q.route.id
               /\ r2.departure_time
                    = q.route.departure_time - (q.route.departure_time % 60000)
               /\ r2.arrival_time
                    = q.route.arrival_time - (q.route.arrival_time % 60000)
               /\ (/\ q.route.departure_time % 60000 = 0
                   /\ q.route.arrival_time % 60000 = 0)
                  => /\ r2.departure_time = q.route.departure_time
                     /\ r2.arrival_time = q.route.arrival_time]_vars

\* two routes were opened and saved with their time fields untouched: one
\* with whole-minute times, stored with the times it was opened with, and one
\* whose departure had seconds and milliseconds, stored truncated to the
\* minute
C28_Witness ==
  /\ reqs = {}
  /\ sent = 2
  /\ toast.kind = "success"
  /\ toast.message = "Flight updated successfully"
  /\ frDialog.route # NoRow
  /\ frDialog.route.departure_time % 60000 = 0
  /\ flight_routes \ SeedRoutes =
       { [r EXCEPT !.departure_time = @ - (@ % 60000)] :
           r \in { x \in SeedRoutes : x.departure_time % 60000 # 0 } }
  /\ \E r \in flight_routes \cap SeedRoutes : r.id = frDialog.route.id

====
